---- MODULE Spec2Model ----
(***************************************************************************)
(* The maze editor of py-ant-maze: the useMaze hook (its React state and   *)
(* its handlers) on top of the Pyodide service, whose Python snippets      *)
(* thaw a Maze, mutate the MazeDraft and freeze it again.                  *)
(*                                                                         *)
(* Numbers.  A hub size is a float in the program.  The model keeps it     *)
(* exact: [n, d, pi] stands for n/d when pi is FALSE and for n/(d*Pi)      *)
(* when pi is TRUE (the form of every auto-computed circular minimum,      *)
(* W*N/radians(angle) = 180*W*N/(angle*Pi)).  d = 0 stands for None.       *)
(***************************************************************************)
EXTENDS Integers, Sequences, FiniteSets, TLC

(***************************************************************************)
(* Bounds of the model.                                                    *)
(***************************************************************************)
\* largest number of rows / columns of a grid, and largest arm length
MaxDim == 2
\* most calls of the service that wait for their answer at one time
MaxInFlight == 2
\* most calls of getPyodide
MaxCallers == 3
\* largest number of arms the user asks for, but in the hub scenario
MaxArms == 2
\* the hub scenario (SpecHub): up to HubArms arms, up to HubWidth wide
HubArms == 4
HubWidth == 3

(***************************************************************************)
(* Exact arithmetic on hub sizes.                                          *)
(***************************************************************************)
RECURSIVE Gcd(_, _)
Gcd(a, b) == IF b = 0 THEN a ELSE Gcd(b, a % b)

Num(n, d, pi) ==
    LET g == Gcd(n, d)
    IN  IF g = 0 THEN [n |-> 0, d |-> 1, pi |-> FALSE]
        ELSE IF n = 0 THEN [n |-> 0, d |-> 1, pi |-> FALSE]
        ELSE [n |-> n \div g, d |-> d \div g, pi |-> pi]

Rat(n, d) == Num(n, d, FALSE)
None == [n |-> 0, d |-> 0, pi |-> FALSE]
IsNone(x) == x.d = 0

\* two consecutive convergents of Pi, PiLo < Pi < PiHi: no fraction with a
\* denominator below 33215 lies strictly between them, so comparing a small
\* fraction with either bound compares it with Pi.
PiLo == <<103993, 33102>>
PiHi == <<355, 113>>

\* x < y
NumLess(x, y) ==
    IF x.pi = y.pi THEN x.n * y.d < y.n * x.d
    ELSE IF x.pi
         \* x.n/(x.d*Pi) < y.n/y.d   <=>   (x.n*y.d)/(y.n*x.d) < Pi
         THEN IF x.n * y.d = 0 THEN y.n > 0
              ELSE (x.n * y.d) * PiLo[2] <= PiLo[1] * (y.n * x.d)
         \* x.n/x.d < y.n/(y.d*Pi)   <=>   Pi < (y.n*x.d)/(x.n*y.d)
         ELSE IF x.n * y.d = 0 THEN y.n > 0
              ELSE (y.n * x.d) * PiHi[2] >= PiHi[1] * (x.n * y.d)

NumLeq(x, y) == ~NumLess(y, x)

(***************************************************************************)
(* Grids: a grid is a sequence of rows, a row a sequence of values.        *)
(***************************************************************************)
Rows(grid) == Len(grid)
Cols(grid) == IF Len(grid) > 0 THEN Len(grid[1]) ELSE 0

ConstRow(n, v) == [j \in 1..n |-> v]
ConstGrid(r, c, v) == [i \in 1..r |-> ConstRow(c, v)]

IsRectangular(grid) ==
    /\ Len(grid) >= 1
    /\ Len(grid[1]) >= 1
    /\ \A i \in 1..Len(grid) : Len(grid[i]) = Len(grid[1])

HasShape(grid, r, c) ==
    /\ Len(grid) = r
    /\ \A i \in 1..Len(grid) : Len(grid[i]) = c

ValuesIn(grid, vals) ==
    \A i \in 1..Len(grid) : \A j \in 1..Len(grid[i]) : grid[i][j] \in vals

\* grid[row][col] = value (0-based row and col, as the program counts them)
SetAt(grid, row, col, value) ==
    [grid EXCEPT ![row + 1] = [@ EXCEPT ![col + 1] = value]]

InGrid(grid, row, col) ==
    /\ row >= 0 /\ row < Len(grid)
    /\ col >= 0 /\ col < Len(grid[row + 1])

(***************************************************************************)
(* resize_grid of the resize snippets (resizeMaze and resizeRadialArm      *)
(* define the same function).                                              *)
(***************************************************************************)
\* a resize that inserts the new rows and columns at the head
resize_grid_at_head(grid, target_rows, target_cols, fill_value) ==
    LET current_rows == Len(grid)
        current_cols == IF Len(grid) > 0 THEN Len(grid[1]) ELSE 0
        g1 == IF target_rows > current_rows
              THEN [i \in 1..(target_rows - current_rows) |->
                        ConstRow(current_cols, fill_value)] \o grid
              ELSE IF target_rows < current_rows
              THEN SubSeq(grid, 1, target_rows)
              ELSE grid
        fit(row) == IF target_cols > Len(row)
                    THEN ConstRow(target_cols - Len(row), fill_value) \o row
                    ELSE IF target_cols < Len(row)
                    THEN SubSeq(row, 1, target_cols)
                    ELSE row
    IN  [i \in 1..Len(g1) |-> fit(g1[i])]

\* a resize that, shrinking, keeps the last rows and columns
resize_grid_keeping_tail(grid, target_rows, target_cols, fill_value) ==
    LET current_rows == Len(grid)
        current_cols == IF Len(grid) > 0 THEN Len(grid[1]) ELSE 0
        g1 == IF target_rows > current_rows
              THEN grid \o [i \in 1..(target_rows - current_rows) |->
                                ConstRow(current_cols, fill_value)]
              ELSE IF target_rows < current_rows
              THEN SubSeq(grid, current_rows - target_rows + 1, current_rows)
              ELSE grid
        fit(row) == IF target_cols > Len(row)
                    THEN row \o ConstRow(target_cols - Len(row), fill_value)
                    ELSE IF target_cols < Len(row)
                    THEN SubSeq(row, Len(row) - target_cols + 1, Len(row))
                    ELSE row
    IN  [i \in 1..Len(g1) |-> fit(g1[i])]

resize_grid(grid, target_rows, target_cols, fill_value) ==
    LET current_rows == Len(grid)
        current_cols == IF Len(grid) > 0 THEN Len(grid[1]) ELSE 0
        \* Adjust rows
        g1 == IF target_rows > current_rows
              THEN grid \o [i \in 1..(target_rows - current_rows) |->
                                ConstRow(current_cols, fill_value)]
              ELSE IF target_rows < current_rows
              THEN SubSeq(grid, 1, target_rows)
              ELSE grid
        \* Adjust cols for each row
        fit(row) == IF target_cols > Len(row)
                    THEN row \o ConstRow(target_cols - Len(row), fill_value)
                    ELSE IF target_cols < Len(row)
                    THEN SubSeq(row, 1, target_cols)
                    ELSE row
    IN  [i \in 1..Len(g1) |-> fit(g1[i])]

(***************************************************************************)
(* Elements, hubs, arms, levels and mazes.  A Maze and a MazeDraft have    *)
(* the same fields; a field a maze type does not use is empty.  The field  *)
(* form tells what the record is: a frozen "Maze", a mutable "MazeDraft",  *)
(* the "data" the editor displays, or the "text" of a written document.    *)
(***************************************************************************)
Element(name, token, value) == [name |-> name, token |-> token, value |-> value]

ValuesOf(elements) == {elements[i].value : i \in 1..Len(elements)}

NoHub == [shape |-> "none", angle_degrees |-> 0, radius |-> None, side_length |-> None]

CircularHub(angle, radius) ==
    [shape |-> "circular", angle_degrees |-> angle, radius |-> radius, side_length |-> None]

PolygonHub(angle, side) ==
    [shape |-> "polygon", angle_degrees |-> angle, radius |-> None, side_length |-> side]

\* the stored hub size: the radius of a circular hub, the side_length of a polygon
HubSizeOf(hub) == IF hub.shape = "circular" THEN hub.radius ELSE hub.side_length

EdgeGridLayout(cells, vertical_walls, horizontal_walls) ==
    [cells |-> cells, vertical_walls |-> vertical_walls,
     horizontal_walls |-> horizontal_walls]

\* a new arm or level of rows x cols cells, filled with the given values
BlankEdge(rows, cols, cell_value, wall_value) ==
    EdgeGridLayout(ConstGrid(rows, cols, cell_value),
                   ConstGrid(rows, cols + 1, wall_value),
                   ConstGrid(rows + 1, cols, wall_value))

\* a level of a 3D maze: its definition (id, index) and its layout
Level(id, index, layout) == [id |-> id, index |-> index, layout |-> layout]

\* the id of the level created at an index
LevelName(index) == "level_" \o ToString(index)

\* a connector between two floors: its type and its two endpoints, each a
\* level (by index in a Maze and in a text, by id in the editor's data) and
\* the coordinates of a cell
Endpoint(level, row, col) == [level |-> level, row |-> row, col |-> col]
Connector(kind, start, end) == [kind |-> kind, from |-> start, to |-> end]

EmptyMaze ==
    [maze_type |-> "none", elements |-> << >>, wall_elements |-> << >>,
     grid |-> << >>, cells |-> << >>, vertical_walls |-> << >>,
     horizontal_walls |-> << >>, arms |-> << >>, hub |-> NoHub, levels |-> << >>,
     connectors |-> << >>, form |-> "data"]

MazeTypes == {"occupancy_grid", "edge_grid", "radial_arm", "edge_grid_3d"}

is3DMazeType(type) == type = "edge_grid_3d"

(***************************************************************************)
(* The default documents of createNewMaze, scaled to the model's bounds    *)
(* (the program's are 8 x 8): walls on the border of an occupancy grid,    *)
(* '#' on the outer wall slots of an edge grid and '-' inside.             *)
(***************************************************************************)
OccupancyElements == <<Element("wall", "#", 1), Element("open", ".", 0)>>
EdgeCellElements == <<Element("open", ".", 0)>>
EdgeWallElements == <<Element("wall", "#", 1), Element("empty", "-", 0)>>
RadialWallElements == <<Element("wall", "#", 1), Element("open", ".", 0)>>
Edge3DCellElements ==
    <<Element("open", ".", 0), Element("elevator", "E", 1), Element("escalator", "S", 2)>>

BorderGrid(rows, cols) ==
    [i \in 1..rows |-> [j \in 1..cols |->
        IF i \in {1, rows} \/ j \in {1, cols} THEN 1 ELSE 0]]

OuterColumns(rows, cols) ==
    [i \in 1..rows |-> [j \in 1..cols |-> IF j \in {1, cols} THEN 1 ELSE 0]]

OuterRows(rows, cols) ==
    [i \in 1..rows |-> [j \in 1..cols |-> IF i \in {1, rows} THEN 1 ELSE 0]]

DefaultOccupancyMaze ==
    [EmptyMaze EXCEPT !.maze_type = "occupancy_grid",
                      !.elements = OccupancyElements,
                      !.grid = BorderGrid(MaxDim, MaxDim)]

DefaultEdgeMaze ==
    [EmptyMaze EXCEPT !.maze_type = "edge_grid",
                      !.elements = EdgeCellElements,
                      !.wall_elements = EdgeWallElements,
                      !.cells = ConstGrid(MaxDim, MaxDim, 0),
                      !.vertical_walls = OuterColumns(MaxDim, MaxDim + 1),
                      !.horizontal_walls = OuterRows(MaxDim + 1, MaxDim)]

DefaultRadialArmMaze ==
    [EmptyMaze EXCEPT !.maze_type = "radial_arm",
                      !.elements = EdgeCellElements,
                      !.wall_elements = RadialWallElements,
                      !.hub = CircularHub(360, Rat(2, 1)),
                      !.arms = <<BlankEdge(1, 1, 0, 1), BlankEdge(1, 1, 0, 1)>>]

DefaultRadialArmPolygonMaze ==
    [DefaultRadialArmMaze EXCEPT !.hub = PolygonHub(360, Rat(1, 1))]

DefaultEdgeGrid3DMaze ==
    [EmptyMaze EXCEPT !.maze_type = "edge_grid_3d",
                      !.elements = Edge3DCellElements,
                      !.wall_elements = EdgeWallElements,
                      !.levels = <<Level("level_0", 0, BlankEdge(1, 1, 0, 1)),
                                   Level("level_1", 1, BlankEdge(1, 1, 0, 1))>>]

(***************************************************************************)
(* The Element Registry: the values of the elements of one set.  An        *)
(* element may be declared without a value; open and wall then take their  *)
(* reserved values when no explicit value collides, and after that every   *)
(* other value-less element takes, in declaration order, the smallest      *)
(* non-negative integer no element of the set uses.                        *)
(***************************************************************************)
\* the value of an element declared without one
NoValue == -1

Declared(elements) == ValuesOf(elements) \ {NoValue}

ReservedValue(name) ==
    IF name = "open" THEN 0 ELSE IF name = "wall" THEN 1 ELSE NoValue

WithReserved(elements) ==
    [i \in 1..Len(elements) |->
        IF /\ elements[i].value = NoValue
           /\ ReservedValue(elements[i].name) # NoValue
           /\ ReservedValue(elements[i].name) \notin Declared(elements)
        THEN [elements[i] EXCEPT !.value = ReservedValue(elements[i].name)]
        ELSE elements[i]]

SmallestUnused(used) ==
    CHOOSE v \in 0..Cardinality(used) :
        v \notin used /\ \A w \in 0..(v - 1) : w \in used

RECURSIVE AutoAssign(_, _)
AutoAssign(elements, i) ==
    IF i > Len(elements) THEN elements
    ELSE IF elements[i].value # NoValue THEN AutoAssign(elements, i + 1)
    ELSE AutoAssign([elements EXCEPT ![i].value = SmallestUnused(Declared(elements))],
                    i + 1)

\* a registry without reserved values: every value-less element in turn
resolve_in_order(elements) == AutoAssign(elements, 1)

resolve_elements(elements) == AutoAssign(WithReserved(elements), 1)

\* a registry that takes any token
IsAnyToken(token) == TRUE

\* a token is one non-whitespace character other than '|'
IsToken(token) == Len(token) = 1 /\ token \notin {" ", "|"}

Repeats(seq) == \E i, j \in 1..Len(seq) : i < j /\ seq[i] = seq[j]

\* the registry of a declared element set: the resolved elements, or the
\* first violation
Unregistered(err) == [ok |-> FALSE, err |-> err, elements |-> << >>]

registered(elements, resolved) ==
    IF Repeats([i \in 1..Len(elements) |-> elements[i].name])
    THEN Unregistered("ElementError: duplicate name")
    ELSE IF Repeats([i \in 1..Len(elements) |-> elements[i].token])
    THEN Unregistered("ElementError: duplicate token")
    ELSE IF \E i \in 1..Len(elements) : ~IsToken(elements[i].token)
    THEN Unregistered("ElementError: invalid token")
    ELSE IF Repeats([i \in 1..Len(resolved) |-> resolved[i].value])
    THEN Unregistered("ElementError: duplicate value")
    ELSE [ok |-> TRUE, err |-> "", elements |-> resolved]

register(elements) == registered(elements, resolve_elements(elements))

(***************************************************************************)
(* The Grid Codec: a written grid holds the token of each cell, a grid of  *)
(* a maze the value of each cell.                                          *)
(***************************************************************************)
TokensOf(elements) == {elements[i].token : i \in 1..Len(elements)}

ValueOf(elements, token) ==
    elements[CHOOSE i \in 1..Len(elements) : elements[i].token = token].value

TokenOf(elements, value) ==
    elements[CHOOSE i \in 1..Len(elements) : elements[i].value = value].token

parse_grid(rows, elements) ==
    LET value == [token \in TokensOf(elements) |-> ValueOf(elements, token)]
    IN  [i \in 1..Len(rows) |-> [j \in 1..Len(rows[i]) |-> value[rows[i][j]]]]

format_grid(grid, elements) ==
    LET token == [value \in ValuesOf(elements) |-> TokenOf(elements, value)]
    IN  [i \in 1..Len(grid) |-> [j \in 1..Len(grid[i]) |-> token[grid[i][j]]]]

parse_layout(layout, cell_elements, wall_elements) ==
    [layout EXCEPT !.cells = parse_grid(@, cell_elements),
                   !.vertical_walls = parse_grid(@, wall_elements),
                   !.horizontal_walls = parse_grid(@, wall_elements)]

format_layout(layout, cell_elements, wall_elements) ==
    [layout EXCEPT !.cells = format_grid(@, cell_elements),
                   !.vertical_walls = format_grid(@, wall_elements),
                   !.horizontal_walls = format_grid(@, wall_elements)]

(***************************************************************************)
(* The YAML text.  A text is either something that is no maze document at  *)
(* all, or a document: the declared elements (with or without values), the *)
(* grids as tokens, the hub and the connectors, written with or without    *)
(* grid numbering (the header row and the row labels).                     *)
(***************************************************************************)
Garbage == [kind |-> "garbage", numbered |-> FALSE, doc |-> [EmptyMaze EXCEPT !.form = "text"]]

\* what a maze is written as: every value by its token
Written(maze) ==
    [format_layout(maze, maze.elements, maze.wall_elements) EXCEPT
        !.form = "text",
        !.grid = format_grid(@, maze.elements),
        !.arms = [i \in 1..Len(@) |->
                     format_layout(@[i], maze.elements, maze.wall_elements)],
        !.levels = [i \in 1..Len(@) |->
                       [@[i] EXCEPT !.layout =
                           format_layout(@, maze.elements, maze.wall_elements)]]]

\* the element declarations with their values left out
Undeclared(elements) ==
    [i \in 1..Len(elements) |-> [elements[i] EXCEPT !.value = NoValue]]

\* the document of a maze with the value of every element written out
Document(maze, numbered) ==
    [kind |-> "yaml", numbered |-> numbered, doc |-> Written(maze)]

\* the document of a maze that declares its elements by name and token only
PlainDocument(maze, numbered) ==
    [kind |-> "yaml", numbered |-> numbered,
     doc |-> [Written(maze) EXCEPT !.elements = Undeclared(@),
                                   !.wall_elements = Undeclared(@)]]

(***************************************************************************)
(* Validation (the Validation Engine of py_ant_maze, run by from_text and  *)
(* by freeze).                                                             *)
(***************************************************************************)
\* Edge lattice: cells H x W, vertical_walls H x (W+1), horizontal_walls (H+1) x W
EdgeLatticeOk(layout) ==
    /\ IsRectangular(layout.cells)
    /\ HasShape(layout.vertical_walls, Rows(layout.cells), Cols(layout.cells) + 1)
    /\ HasShape(layout.horizontal_walls, Rows(layout.cells) + 1, Cols(layout.cells))

EdgeValuesOk(layout, cell_values, wall_values) ==
    /\ ValuesIn(layout.cells, cell_values)
    /\ ValuesIn(layout.vertical_walls, wall_values)
    /\ ValuesIn(layout.horizontal_walls, wall_values)

ArmWidths(arms) == [i \in 1..Len(arms) |-> Len(arms[i].cells)]

MaxOf(seq) == CHOOSE m \in {seq[i] : i \in 1..Len(seq)} :
                  \A i \in 1..Len(seq) : seq[i] <= m

\* the smallest hub size the validation accepts:
\* circular R_min = (W_max * N) / theta, polygon S_min = W_max
HubMinimum(hub, arms) ==
    IF hub.shape = "circular"
    THEN Num(180 * MaxOf(ArmWidths(arms)) * Len(arms), hub.angle_degrees, TRUE)
    ELSE Rat(MaxOf(ArmWidths(arms)), 1)

HubOk(hub, arms) ==
    /\ hub.shape \in {"circular", "polygon"}
    /\ hub.angle_degrees > 0 /\ hub.angle_degrees <= 360
    /\ ~IsNone(HubSizeOf(hub))
    /\ NumLeq(HubMinimum(hub, arms), HubSizeOf(hub))

\* Connector validation: both endpoints resolve to levels, the two levels
\* differ in index by exactly 1, the coordinates lie within the level they
\* name, an elevator has identical coordinates at both ends and an escalator
\* at least one coordinate that differs
Resolves(endpoint, levels) == endpoint.level >= 0 /\ endpoint.level < Len(levels)

Adjacent(start, end) == start.level - end.level \in {1, -1}

WithinLevel(endpoint, levels) ==
    InGrid(levels[endpoint.level + 1].layout.cells, endpoint.row, endpoint.col)

SameCoordinates(start, end) == start.row = end.row /\ start.col = end.col

\* a validation of connectors that leaves the levels of the endpoints unchecked
ConnectorOkAnyLevels(connector, levels) ==
    /\ connector.kind \in {"elevator", "escalator"}
    /\ Resolves(connector.from, levels) /\ Resolves(connector.to, levels)
    /\ WithinLevel(connector.from, levels) /\ WithinLevel(connector.to, levels)

ConnectorOk(connector, levels) ==
    /\ connector.kind \in {"elevator", "escalator"}
    /\ Resolves(connector.from, levels) /\ Resolves(connector.to, levels)
    /\ Adjacent(connector.from, connector.to)
    /\ WithinLevel(connector.from, levels) /\ WithinLevel(connector.to, levels)
    /\ connector.kind = "elevator" => SameCoordinates(connector.from, connector.to)
    /\ connector.kind = "escalator" => ~SameCoordinates(connector.from, connector.to)

\* the handler's validate: occupancy requires rectangularity only, edge the
\* lattice relations, radial arm the lattice of each arm and the hub size, a
\* 3D maze the lattice of each level and its connectors
Validate(draft) ==
    CASE draft.maze_type = "occupancy_grid" -> IsRectangular(draft.grid)
      [] draft.maze_type = "edge_grid" -> EdgeLatticeOk(draft)
      [] draft.maze_type = "radial_arm" ->
            /\ Len(draft.arms) >= 1
            /\ \A i \in 1..Len(draft.arms) : EdgeLatticeOk(draft.arms[i])
            /\ HubOk(draft.hub, draft.arms)
      [] draft.maze_type = "edge_grid_3d" ->
            /\ Len(draft.levels) >= 1
            /\ \A i \in 1..Len(draft.levels) : EdgeLatticeOk(draft.levels[i].layout)
            /\ \A i \in 1..Len(draft.connectors) :
                   ConnectorOk(draft.connectors[i], draft.levels)
      [] OTHER -> FALSE

\* the Grid Codec: every value of every grid resolves via its element set
\* (a token when parsing, a value when formatting)
ValuesOk(draft) ==
    LET cell_values == ValuesOf(draft.elements)
        wall_values == ValuesOf(draft.wall_elements)
    IN  /\ ValuesIn(draft.grid, cell_values)
        /\ EdgeValuesOk(draft, cell_values, wall_values)
        /\ \A i \in 1..Len(draft.arms) :
               EdgeValuesOk(draft.arms[i], cell_values, wall_values)
        /\ \A i \in 1..Len(draft.levels) :
               EdgeValuesOk(draft.levels[i].layout, cell_values, wall_values)

(***************************************************************************)
(* Results of the Python calls: a value, or the exception raised.          *)
(***************************************************************************)
Ok(maze) == [ok |-> TRUE, err |-> "", maze |-> maze]
Raise(err) == [ok |-> FALSE, err |-> err, maze |-> EmptyMaze]

\* the tokens of every grid of a document resolve via its element sets
TokensOk(doc, cell_tokens, wall_tokens) ==
    /\ ValuesIn(doc.grid, cell_tokens)
    /\ EdgeValuesOk(doc, cell_tokens, wall_tokens)
    /\ \A i \in 1..Len(doc.arms) : EdgeValuesOk(doc.arms[i], cell_tokens, wall_tokens)
    /\ \A i \in 1..Len(doc.levels) :
           EdgeValuesOk(doc.levels[i].layout, cell_tokens, wall_tokens)

\* reading a document: the registries of its element sets, then every grid
\* through the codec (the numbering is ignored)
read_registered(doc, cells, walls) ==
    IF ~cells.ok THEN Raise(cells.err)
    ELSE IF ~walls.ok THEN Raise(walls.err)
    ELSE IF ~TokensOk(doc, TokensOf(cells.elements), TokensOf(walls.elements))
    THEN Raise("ElementError: unknown token")
    ELSE Ok([parse_layout(doc, cells.elements, walls.elements) EXCEPT
                !.form = "Maze",
                !.elements = cells.elements,
                !.wall_elements = walls.elements,
                !.grid = parse_grid(@, cells.elements),
                !.arms = [i \in 1..Len(@) |->
                             parse_layout(@[i], cells.elements, walls.elements)],
                !.levels = [i \in 1..Len(@) |->
                               [@[i] EXCEPT !.layout =
                                   parse_layout(@, cells.elements, walls.elements)]]])

read_document(doc) ==
    read_registered(doc, register(doc.elements), register(doc.wall_elements))

\* the maze a text spells out, valid or not
Spelled(text) == read_document(text.doc).maze

\* the maze that was read, or the first violation the validation finds in it
validated(read) ==
    IF ~read.ok THEN read
    ELSE IF ~Validate(read.maze) THEN Raise("Error: maze validation failed")
    ELSE read

\* Maze.from_text: read the document (every token must resolve) and validate it
from_text(yaml_text) ==
    IF yaml_text.kind # "yaml" THEN Raise("Error: invalid maze document")
    ELSE validated(read_document(yaml_text.doc))

\* Maze.thaw: an independent MazeDraft with the Maze's content
thaw(maze) == [maze EXCEPT !.form = "MazeDraft"]

\* MazeDraft.freeze: full validation, then one new Maze, or the exception
freeze(draft) ==
    IF Validate(draft) THEN Ok([draft EXCEPT !.form = "Maze"])
    ELSE Raise("Error: maze validation failed")

\* a to_text that writes something for a value no element defines
to_text_lenient(maze) ==
    [ok |-> TRUE, err |-> "",
     text |-> IF ValuesOk(maze) THEN Document(maze, TRUE) ELSE Garbage]

\* Maze.to_text(with_grid_numbers=True): the text, or the exception of the
\* codec for a value no element defines
to_text(maze) ==
    IF ValuesOk(maze)
    THEN [ok |-> TRUE, err |-> "", text |-> Document(maze, TRUE)]
    ELSE [ok |-> FALSE, err |-> "ElementError: unknown value", text |-> Garbage]

(***************************************************************************)
(* The Pyodide service: what each exported function returns for a YAML     *)
(* text, a MazeResult {text, data} or the exception its Python raises.     *)
(* The field wrote is bookkeeping: the form of the object the Python of    *)
(* the call mutated ("" when it mutated none).                             *)
(***************************************************************************)
Failed(err) ==
    [ok |-> FALSE, err |-> err, text |-> Garbage, data |-> EmptyMaze, wrote |-> ""]

_extract_level_layout(level, maze_type) ==
    [id |-> level.id, index |-> level.index,
     layout |-> EdgeGridLayout(level.layout.cells, level.layout.vertical_walls,
                               level.layout.horizontal_walls)]

\* 'level': conn.start.level.name, 'row', 'col'
_extract_endpoint(endpoint, levels) ==
    Endpoint(IF Resolves(endpoint, levels) THEN levels[endpoint.level + 1].id ELSE "",
             endpoint.row, endpoint.col)

_extract_connectors(connectors, levels) ==
    [i \in 1..Len(connectors) |->
        Connector(connectors[i].kind,
                  _extract_endpoint(connectors[i].from, levels),
                  _extract_endpoint(connectors[i].to, levels))]

_extract_maze_data(maze) ==
    CASE is3DMazeType(maze.maze_type) ->
            [EmptyMaze EXCEPT !.maze_type = maze.maze_type,
                !.levels = [i \in 1..Len(maze.levels) |->
                               _extract_level_layout(maze.levels[i], maze.maze_type)],
                !.connectors = _extract_connectors(maze.connectors, maze.levels),
                !.elements = maze.elements,
                !.wall_elements = maze.wall_elements]
      [] maze.maze_type = "occupancy_grid" ->
            [EmptyMaze EXCEPT !.maze_type = maze.maze_type,
                !.grid = maze.grid,
                !.elements = maze.elements]
      [] maze.maze_type = "edge_grid" ->
            [EmptyMaze EXCEPT !.maze_type = maze.maze_type,
                !.cells = maze.cells,
                !.vertical_walls = maze.vertical_walls,
                !.horizontal_walls = maze.horizontal_walls,
                !.elements = maze.elements,
                !.wall_elements = maze.wall_elements]
      [] maze.maze_type = "radial_arm" ->
            [EmptyMaze EXCEPT !.maze_type = maze.maze_type,
                !.arms = [i \in 1..Len(maze.arms) |->
                             EdgeGridLayout(maze.arms[i].cells,
                                            maze.arms[i].vertical_walls,
                                            maze.arms[i].horizontal_walls)],
                !.hub = IF maze.hub.shape = "circular"
                        THEN CircularHub(maze.hub.angle_degrees, maze.hub.radius)
                        ELSE PolygonHub(maze.hub.angle_degrees, maze.hub.side_length),
                !.elements = maze.elements,
                !.wall_elements = maze.wall_elements]
      [] OTHER -> [EmptyMaze EXCEPT !.maze_type = maze.maze_type]

\* {'text': ..., 'data': ...}, or the exception of to_text
MazeResult(text, data) ==
    IF text.ok
    THEN [ok |-> TRUE, err |-> "", text |-> text.text, data |-> data, wrote |-> ""]
    ELSE Failed(text.err)

_maze_to_result(maze) == MazeResult(to_text(maze), _extract_maze_data(maze))

\* a service that serializes the draft without freezing it
FreezeToResultUnchecked(mutated) ==
    IF ~mutated.ok THEN Failed(mutated.err) ELSE _maze_to_result(mutated.maze)

\* "maze = maze.freeze(); json.dumps(_maze_to_result(maze))" after a mutation
\* that either produced a draft or raised
Frozen(frozen) ==
    IF frozen.ok THEN _maze_to_result(frozen.maze) ELSE Failed(frozen.err)

FreezeToResult(mutated) ==
    IF ~mutated.ok THEN Failed(mutated.err)
    ELSE [Frozen(freeze(mutated.maze)) EXCEPT !.wrote = mutated.maze.form]

\* ".thaw()" on what from_text returned
Thawed(parsed) == IF parsed.ok THEN Ok(thaw(parsed.maze)) ELSE Raise(parsed.err)

\* a thaw whose draft comes without the wall elements of the maze
ThawTextWithoutWalls(yaml_text) ==
    Thawed([from_text(yaml_text) EXCEPT !.maze.wall_elements = << >>])

\* "maze = Maze.from_text(yaml_text).thaw()": the draft, or the error raised
ThawText(yaml_text) == Thawed(from_text(yaml_text))

\* layout.<grid_type>[row][col] = value on an edge-shaped layout
SetEdgeCell(layout, row, col, value, grid_type) ==
    CASE grid_type = "cells" ->
            IF InGrid(layout.cells, row, col)
            THEN Ok([layout EXCEPT !.cells = SetAt(@, row, col, value)])
            ELSE Raise("IndexError: list index out of range")
      [] grid_type = "vertical_walls" ->
            IF InGrid(layout.vertical_walls, row, col)
            THEN Ok([layout EXCEPT !.vertical_walls = SetAt(@, row, col, value)])
            ELSE Raise("IndexError: list index out of range")
      [] grid_type = "horizontal_walls" ->
            IF InGrid(layout.horizontal_walls, row, col)
            THEN Ok([layout EXCEPT !.horizontal_walls = SetAt(@, row, col, value)])
            ELSE Raise("IndexError: list index out of range")
      [] OTHER -> Ok(layout)

parseMaze(yamlText) == Frozen(from_text(yamlText))

\* a format that hands the text back as it was typed
formatMazePlain(yamlText) ==
    IF ~from_text(yamlText).ok THEN Failed(from_text(yamlText).err)
    ELSE [ok |-> TRUE, err |-> "", text |-> yamlText, data |-> EmptyMaze, wrote |-> ""]

\* returns the formatted text in .text
Formatted(parsed) ==
    IF ~parsed.ok THEN Failed(parsed.err)
    ELSE MazeResult(to_text(parsed.maze), EmptyMaze)

formatMaze(yamlText) == Formatted(from_text(yamlText))

updateMazeDraft(maze, row, col, value, grid_type) ==
    CASE maze.maze_type = "occupancy_grid" ->
            IF InGrid(maze.grid, row, col)
            THEN Ok([maze EXCEPT !.grid = SetAt(@, row, col, value)])
            ELSE Raise("IndexError: list index out of range")
      [] maze.maze_type = "edge_grid" -> SetEdgeCell(maze, row, col, value, grid_type)
      [] OTHER -> Ok(maze)

\* the Python of updateMaze from its second statement on
updateMazeThawed(thawed, row, col, value, gridType) ==
    IF ~thawed.ok THEN Failed(thawed.err)
    ELSE FreezeToResult(updateMazeDraft(thawed.maze, row, col, value, gridType))

updateMaze(yamlText, row, col, value, gridType) ==
    updateMazeThawed(ThawText(yamlText), row, col, value, gridType)

update3DMazeCellDraft(maze, level_index, row, col, value, grid_type) ==
    IF ~is3DMazeType(maze.maze_type)
    THEN Raise("AttributeError: layout has no attribute 'levels'")
    ELSE IF level_index < 0 \/ level_index >= Len(maze.levels)
    THEN Raise("IndexError: list index out of range")
    ELSE LET set == SetEdgeCell(maze.levels[level_index + 1].layout,
                                row, col, value, grid_type)
         IN  IF set.ok
             THEN Ok([maze EXCEPT !.levels[level_index + 1].layout = set.maze])
             ELSE set

\* the Python of update3DMazeCell from its second statement on
update3DMazeCellThawed(thawed, levelIndex, row, col, value, gridType) ==
    IF ~thawed.ok THEN Failed(thawed.err)
    ELSE FreezeToResult(update3DMazeCellDraft(thawed.maze, levelIndex, row, col, value,
                            gridType))

update3DMazeCell(yamlText, levelIndex, row, col, value, gridType) ==
    update3DMazeCellThawed(ThawText(yamlText), levelIndex, row, col, value, gridType)

updateRadialArmCellDraft(maze, arm_index, row, col, value, grid_type) ==
    IF maze.maze_type # "radial_arm"
    THEN Raise("ValueError: updateRadialArmCell only works with radial_arm mazes")
    ELSE IF arm_index < 0 \/ arm_index >= Len(maze.arms)
    THEN Raise("IndexError: list index out of range")
    ELSE LET set == SetEdgeCell(maze.arms[arm_index + 1], row, col, value, grid_type)
         IN  IF set.ok THEN Ok([maze EXCEPT !.arms[arm_index + 1] = set.maze]) ELSE set

\* the Python of updateRadialArmCell from its second statement on
updateRadialArmCellThawed(thawed, armIndex, row, col, value, gridType) ==
    IF ~thawed.ok THEN Failed(thawed.err)
    ELSE FreezeToResult(updateRadialArmCellDraft(thawed.maze, armIndex, row, col, value,
                            gridType))

updateRadialArmCell(yamlText, armIndex, row, col, value, gridType) ==
    updateRadialArmCellThawed(ThawText(yamlText), armIndex, row, col, value, gridType)

\* a resize that gives the wall grids the shape of the cells
ResizeEdgeLikeCells(layout, rows, cols, cell_fill, wall_fill) ==
    [layout EXCEPT
        !.cells = resize_grid(@, rows, cols, cell_fill),
        !.vertical_walls = resize_grid(@, rows, cols, wall_fill),
        !.horizontal_walls = resize_grid(@, rows, cols, wall_fill)]

\* resize of an edge-shaped layout: cells rows x cols,
\* vertical walls rows x (cols + 1), horizontal walls (rows + 1) x cols
ResizeEdge(layout, rows, cols, cell_fill, wall_fill) ==
    [layout EXCEPT
        !.cells = resize_grid(@, rows, cols, cell_fill),
        !.vertical_walls = resize_grid(@, rows, cols + 1, wall_fill),
        !.horizontal_walls = resize_grid(@, rows + 1, cols, wall_fill)]

resizeMazeDraft(maze, new_rows, new_cols, default_value) ==
    CASE maze.maze_type = "occupancy_grid" ->
            Ok([maze EXCEPT !.grid = resize_grid(@, new_rows, new_cols, default_value)])
      [] maze.maze_type = "edge_grid" ->
            Ok(ResizeEdge(maze, new_rows, new_cols, default_value, 0))
      [] maze.maze_type = "edge_grid_3d" ->
            Ok([maze EXCEPT !.levels = [i \in 1..Len(@) |->
                    [@[i] EXCEPT !.layout =
                        ResizeEdge(@, new_rows, new_cols, default_value, 0)]]])
      \* radial_arm resize not supported - use resizeRadialArm instead
      [] OTHER -> Ok(maze)

\* the Python of resizeMaze from its second statement on
resizeMazeThawed(thawed, newRows, newCols, defaultValue) ==
    IF ~thawed.ok THEN Failed(thawed.err)
    ELSE FreezeToResult(resizeMazeDraft(thawed.maze, newRows, newCols, defaultValue))

resizeMaze(yamlText, newRows, newCols, defaultValue) ==
    resizeMazeThawed(ThawText(yamlText), newRows, newCols, defaultValue)

\* a minimum radius that divides by the angle in half turns, not in radians
min_radius_without_pi(arm_widths, angle_degrees) ==
    Num(180 * (MaxOf(arm_widths) * Len(arm_widths)), angle_degrees, FALSE)

\* total_width / angle_radians, with total_width = max_width * arm_count
min_radius(arm_widths, angle_degrees) ==
    Num(180 * (MaxOf(arm_widths) * Len(arm_widths)), angle_degrees, TRUE)

RECURSIVE SumOf(_)
SumOf(seq) == IF Len(seq) = 0 THEN 0 ELSE seq[1] + SumOf(Tail(seq))

\* a minimum side that adds the arm widths up
min_side_of_sum(arm_widths) == Rat(SumOf(arm_widths), 1)

\* float(max(arm_widths))
min_side(arm_widths) == Rat(MaxOf(arm_widths), 1)

\* a recalculation that always stores the minimum
RecalculateHubToMinimum(hub, arms) ==
    IF hub.shape = "circular"
    THEN [hub EXCEPT !.radius = min_radius(ArmWidths(arms), hub.angle_degrees)]
    ELSE IF hub.shape = "polygon"
    THEN [hub EXCEPT !.side_length = min_side(ArmWidths(arms))]
    ELSE hub

\* "Recalculate minimum hub size": raise a missing or too-small stored size
RecalculateHub(hub, arms) ==
    LET arm_widths == ArmWidths(arms)
    IN  IF hub.shape = "circular"
        THEN IF IsNone(hub.radius) \/ NumLess(hub.radius, min_radius(arm_widths, hub.angle_degrees))
             THEN [hub EXCEPT !.radius = min_radius(arm_widths, hub.angle_degrees)]
             ELSE hub
        ELSE IF hub.shape = "polygon"
        THEN IF IsNone(hub.side_length) \/ NumLess(hub.side_length, min_side(arm_widths))
             THEN [hub EXCEPT !.side_length = min_side(arm_widths)]
             ELSE hub
        ELSE hub

resizeRadialArmDraft(maze, arm_index, new_width, new_length, default_cell_value, default_wall_value) ==
    IF maze.maze_type = "radial_arm"
    THEN IF arm_index < 0 \/ arm_index >= Len(maze.arms)
         THEN Raise("IndexError: list index out of range")
         ELSE LET arms == [maze.arms EXCEPT ![arm_index + 1] =
                              ResizeEdge(@, new_width, new_length,
                                         default_cell_value, default_wall_value)]
              IN  Ok([maze EXCEPT !.arms = arms, !.hub = RecalculateHub(@, arms)])
    ELSE Ok(maze)

\* the Python of resizeRadialArm from its second statement on
resizeRadialArmThawed(thawed, armIndex, newWidth, newLength, defaultCellValue, defaultWallValue) ==
    IF ~thawed.ok THEN Failed(thawed.err)
    ELSE FreezeToResult(resizeRadialArmDraft(thawed.maze, armIndex, newWidth, newLength,
                            defaultCellValue, defaultWallValue))

resizeRadialArm(yamlText, armIndex, newWidth, newLength, defaultCellValue, defaultWallValue) ==
    resizeRadialArmThawed(ThawText(yamlText), armIndex, newWidth, newLength, defaultCellValue, defaultWallValue)

\* a set-arm-count that shapes the new arms after the first arm and puts
\* them in front
setRadialArmCountDraftInFront(maze, new_count, default_cell_value, default_wall_value) ==
    IF maze.maze_type # "radial_arm"
    THEN Raise("ValueError: setRadialArmCount only works on radial_arm mazes")
    ELSE IF new_count < 1
    THEN Raise("ValueError: Must have at least 1 arm")
    ELSE IF new_count > Len(maze.arms)
    THEN Ok([maze EXCEPT
                !.arms = [i \in 1..(new_count - Len(maze.arms)) |->
                             BlankEdge(Len(maze.arms[1].cells), Len(maze.arms[1].cells[1]),
                                       default_cell_value, default_wall_value)] \o @,
                !.hub = RecalculateHub(@, maze.arms)])
    ELSE Ok([maze EXCEPT !.arms = SubSeq(@, 1, new_count),
                         !.hub = RecalculateHub(@, SubSeq(maze.arms, 1, new_count))])

setRadialArmCountDraft(maze, new_count, default_cell_value, default_wall_value) ==
    IF maze.maze_type # "radial_arm"
    THEN Raise("ValueError: setRadialArmCount only works on radial_arm mazes")
    ELSE IF new_count < 1
    THEN Raise("ValueError: Must have at least 1 arm")
    ELSE LET current_count == Len(maze.arms)
             template_arm == maze.arms[current_count]
             rows == Len(template_arm.cells)
             cols == IF Len(template_arm.cells) > 0 THEN Len(template_arm.cells[1]) ELSE 4
             arms == IF new_count > current_count
                     THEN maze.arms \o [i \in 1..(new_count - current_count) |->
                             BlankEdge(rows, cols, default_cell_value, default_wall_value)]
                     ELSE IF new_count < current_count
                     THEN SubSeq(maze.arms, 1, new_count)
                     ELSE maze.arms
         IN  Ok([maze EXCEPT !.arms = arms, !.hub = RecalculateHub(@, arms)])

\* the Python of setRadialArmCount from its second statement on
setRadialArmCountThawed(thawed, newCount, defaultCellValue, defaultWallValue) ==
    IF ~thawed.ok THEN Failed(thawed.err)
    ELSE FreezeToResult(setRadialArmCountDraft(thawed.maze, newCount, defaultCellValue,
                            defaultWallValue))

setRadialArmCount(yamlText, newCount, defaultCellValue, defaultWallValue) ==
    setRadialArmCountThawed(ThawText(yamlText), newCount, defaultCellValue, defaultWallValue)

\* a set-angle that stores whatever angle it is given
setRadialArmAngleDraftUnchecked(maze, angle_degrees) ==
    IF maze.maze_type # "radial_arm"
    THEN Raise("ValueError: setRadialArmAngle only works on radial_arm mazes")
    ELSE Ok([maze EXCEPT !.hub.angle_degrees = angle_degrees])

setRadialArmAngleDraft(maze, angle_degrees) ==
    IF maze.maze_type # "radial_arm"
    THEN Raise("ValueError: setRadialArmAngle only works on radial_arm mazes")
    ELSE IF angle_degrees < 1 \/ angle_degrees > 360
    THEN Raise("ValueError: angle_degrees must be between 1 and 360")
    ELSE Ok([maze EXCEPT !.hub.angle_degrees = angle_degrees])

\* the Python of setRadialArmAngle from its second statement on
setRadialArmAngleThawed(thawed, angleDegrees) ==
    IF ~thawed.ok THEN Failed(thawed.err)
    ELSE FreezeToResult(setRadialArmAngleDraft(thawed.maze, angleDegrees))

setRadialArmAngle(yamlText, angleDegrees) ==
    setRadialArmAngleThawed(ThawText(yamlText), angleDegrees)

\* a set-hub-size that also refuses a request equal to the minimum
setRadialArmHubSizeDraftStrict(maze, new_size) ==
    IF maze.maze_type # "radial_arm"
    THEN Raise("ValueError: setRadialArmHubSize only works on radial_arm mazes")
    ELSE LET arm_widths == ArmWidths(maze.arms)
         IN  IF maze.hub.shape = "circular"
             THEN IF ~NumLess(min_radius(arm_widths, maze.hub.angle_degrees), new_size)
                  THEN Raise("ValueError: Hub radius must be >= min_radius")
                  ELSE Ok([maze EXCEPT !.hub.radius = new_size])
             ELSE IF maze.hub.shape = "polygon"
             THEN IF ~NumLess(min_side(arm_widths), new_size)
                  THEN Raise("ValueError: Side length must be >= min_side")
                  ELSE Ok([maze EXCEPT !.hub.side_length = new_size])
             ELSE Ok(maze)

\* a set-hub-size that stores the minimum in place of a smaller request
setRadialArmHubSizeDraftClamping(maze, new_size) ==
    IF maze.maze_type # "radial_arm"
    THEN Raise("ValueError: setRadialArmHubSize only works on radial_arm mazes")
    ELSE LET arm_widths == ArmWidths(maze.arms)
         IN  IF maze.hub.shape = "circular"
             THEN IF NumLess(new_size, min_radius(arm_widths, maze.hub.angle_degrees))
                  THEN Ok([maze EXCEPT
                              !.hub.radius = min_radius(arm_widths, maze.hub.angle_degrees)])
                  ELSE Ok([maze EXCEPT !.hub.radius = new_size])
             ELSE IF maze.hub.shape = "polygon"
             THEN IF NumLess(new_size, min_side(arm_widths))
                  THEN Ok([maze EXCEPT !.hub.side_length = min_side(arm_widths)])
                  ELSE Ok([maze EXCEPT !.hub.side_length = new_size])
             ELSE Ok(maze)

setRadialArmHubSizeDraft(maze, new_size) ==
    IF maze.maze_type # "radial_arm"
    THEN Raise("ValueError: setRadialArmHubSize only works on radial_arm mazes")
    ELSE LET arm_widths == ArmWidths(maze.arms)
         IN  IF maze.hub.shape = "circular"
             THEN IF NumLess(new_size, min_radius(arm_widths, maze.hub.angle_degrees))
                  THEN Raise("ValueError: Hub radius must be >= min_radius")
                  ELSE Ok([maze EXCEPT !.hub.radius = new_size])
             ELSE IF maze.hub.shape = "polygon"
             THEN IF NumLess(new_size, min_side(arm_widths))
                  THEN Raise("ValueError: Side length must be >= min_side")
                  ELSE Ok([maze EXCEPT !.hub.side_length = new_size])
             ELSE Ok(maze)

\* the Python of setRadialArmHubSize from its second statement on
setRadialArmHubSizeThawed(thawed, size) ==
    IF ~thawed.ok THEN Failed(thawed.err)
    ELSE FreezeToResult(setRadialArmHubSizeDraft(thawed.maze, size))

setRadialArmHubSize(yamlText, size) ==
    setRadialArmHubSizeThawed(ThawText(yamlText), size)

DanglingConnector == "DanglingConnector: a connector endpoint is on a removed level"

\* set_level_count: trailing levels are added with the dimensions of the last
\* existing level, or removed; a connector whose endpoint is on a removed
\* level is dangling
setLevelCountDraft(maze, count, default_cell_value, default_wall_value) ==
    IF ~is3DMazeType(maze.maze_type)
    THEN Raise("TypeMismatchError: set_level_count on a maze that is not 3D")
    ELSE IF count < 1 \/ Len(maze.levels) < 1
    THEN Raise("ValueError: level count must be at least 1")
    ELSE LET current == Len(maze.levels)
             template == maze.levels[current].layout
             added == [i \in 1..(count - current) |->
                          Level(LevelName(current + i - 1), current + i - 1,
                                BlankEdge(Rows(template.cells), Cols(template.cells),
                                          default_cell_value, default_wall_value))]
             levels == IF count > current THEN maze.levels \o added
                       ELSE SubSeq(maze.levels, 1, count)
         IN  IF \E i \in 1..Len(maze.connectors) :
                    \/ ~Resolves(maze.connectors[i].from, levels)
                    \/ ~Resolves(maze.connectors[i].to, levels)
             THEN Raise(DanglingConnector)
             ELSE Ok([maze EXCEPT !.levels = levels])

\* the Python of setLevelCount from its second statement on
setLevelCountThawed(thawed, count, defaultCellValue, defaultWallValue) ==
    IF ~thawed.ok THEN Failed(thawed.err)
    ELSE FreezeToResult(setLevelCountDraft(thawed.maze, count, defaultCellValue,
                            defaultWallValue))

setLevelCount(yamlText, count, defaultCellValue, defaultWallValue) ==
    setLevelCountThawed(ThawText(yamlText), count, defaultCellValue, defaultWallValue)

DEFAULT_OCCUPANCY_YAML == PlainDocument(DefaultOccupancyMaze, TRUE)
DEFAULT_EDGE_YAML == PlainDocument(DefaultEdgeMaze, FALSE)
DEFAULT_RADIAL_ARM_YAML == PlainDocument(DefaultRadialArmMaze, FALSE)
DEFAULT_RADIAL_ARM_POLYGON_YAML == PlainDocument(DefaultRadialArmPolygonMaze, FALSE)
DEFAULT_EDGE_GRID_3D_YAML == PlainDocument(DefaultEdgeGrid3DMaze, FALSE)

\* addElement: the declaration is appended to the loaded YAML itself, by name
\* and token only, after a look for its name and its token in the set it
\* joins; the text with the new declaration then goes through Maze.from_text
ElementsOfType(doc, elementType) ==
    IF elementType = "cell" THEN doc.elements ELSE doc.wall_elements

Clashes(elements, name, token) ==
    {i \in 1..Len(elements) : elements[i].name = name \/ elements[i].token = token}

FirstOf(indices) == CHOOSE i \in indices : \A j \in indices : i <= j

AppendElement(doc, name, token, elementType) ==
    IF elementType = "cell"
    THEN [doc EXCEPT !.elements = Append(@, Element(name, token, NoValue))]
    ELSE [doc EXCEPT !.wall_elements = Append(@, Element(name, token, NoValue))]

\* an addElement that appends to the elements of the parsed maze, without a
\* look at the declarations
AppendedToData(result, name, token, elementType) ==
    IF ~result.ok THEN result
    ELSE [result EXCEPT !.data = AppendElement(@, name, token, elementType)]

addElementToData(yamlText, elements, name, token, elementType) ==
    AppendedToData(Frozen(from_text(yamlText)), name, token, elementType)

addElementTo(yamlText, elements, name, token, elementType) ==
    IF Clashes(elements, name, token) # {}
    THEN IF elements[FirstOf(Clashes(elements, name, token))].name = name
         THEN Failed("ValueError: Element with name already exists")
         ELSE Failed("ValueError: Element with token already exists")
    ELSE Frozen(from_text([yamlText EXCEPT
                              !.doc = AppendElement(@, name, token, elementType)]))

addElement(yamlText, name, token, elementType) ==
    IF yamlText.kind # "yaml" THEN Failed("Error: invalid maze document")
    ELSE addElementTo(yamlText, ElementsOfType(yamlText.doc, elementType),
                      name, token, elementType)

createNewMaze(type, hubType) ==
    parseMaze(CASE type = "occupancy_grid" -> DEFAULT_OCCUPANCY_YAML
                [] type = "edge_grid" -> DEFAULT_EDGE_YAML
                [] type = "radial_arm" ->
                       IF hubType = "polygon" THEN DEFAULT_RADIAL_ARM_POLYGON_YAML
                       ELSE DEFAULT_RADIAL_ARM_YAML
                [] type = "edge_grid_3d" -> DEFAULT_EDGE_GRID_3D_YAML
                [] OTHER -> DEFAULT_OCCUPANCY_YAML)

(***************************************************************************)
(* The service of services/pyodide.ts, an earlier revision: its updateMaze *)
(* and resizeMaze assign into the grids of the Maze that from_text         *)
(* returned and serialize that same object; nothing is thawed and nothing  *)
(* is frozen.  Whether the assignment goes through depends on the library  *)
(* the build loads: writable is TRUE when the grids of its Maze are lists  *)
(* and FALSE when they are frozen, and the assignment then raises.         *)
(***************************************************************************)
\* "json.dumps(_maze_to_result(maze))" on the object the statements wrote into
SerializeWritten(mutated) ==
    IF ~mutated.ok THEN Failed(mutated.err)
    ELSE [_maze_to_result(mutated.maze) EXCEPT !.wrote = mutated.maze.form]

\* the statements after "maze = Maze.from_text(yaml_text)": an assignment
\* into the Maze (for the types the snippet handles), then its serialization
WriteToMaze(parsed, mutated, writable, err) ==
    IF ~parsed.ok THEN Failed(parsed.err)
    ELSE IF parsed.maze.maze_type \notin {"occupancy_grid", "edge_grid"}
    THEN _maze_to_result(parsed.maze)
    ELSE IF ~writable THEN Failed(err)
    ELSE SerializeWritten(mutated)

legacy_updateMaze(yamlText, row, col, value, gridType, writable) ==
    WriteToMaze(from_text(yamlText),
                updateMazeDraft(from_text(yamlText).maze, row, col, value, gridType),
                writable, "TypeError: object does not support item assignment")

legacy_resizeMaze(yamlText, newRows, newCols, defaultValue, writable) ==
    WriteToMaze(from_text(yamlText),
                resizeMazeDraft(from_text(yamlText).maze, newRows, newCols, defaultValue),
                writable, "AttributeError: object has no attribute 'append'")

(***************************************************************************)
(* The useMaze hook: its React state.                                      *)
(*   last  bookkeeping, not program state: the handler that last applied   *)
(*         a result or showed an error, whether it succeeded, a note on    *)
(*         what it did, for a resize the maze its text held before, and    *)
(*         for a hub size request the size asked for.                      *)
(***************************************************************************)
VARIABLES loading, error, input, mazeData, selectedElementValue,
          selectedWallElementValue, selectedLayer, selectedLevelIndex, last,
          pending, pyodide

vars == <<loading, error, input, mazeData, selectedElementValue,
          selectedWallElementValue, selectedLayer, selectedLevelIndex, last,
          pending, pyodide>>

\* what only the asynchronous steps change
async == <<pending, pyodide>>

selection == <<selectedElementValue, selectedWallElementValue, selectedLayer,
               selectedLevelIndex>>

\* error === null, mazeData === null
NoError == ""

\* let pyodide: PyodideInterface | null = null, and nobody has called
\* getPyodide: no instance, no call of loadPyodide, no caller under way
NotLoaded == [instance |-> 0, loads |-> 0, done |-> <<>>, at |-> <<>>, got |-> <<>>]
NoMaze == EmptyMaze

Did(op, ok, note) ==
    [op |-> op, ok |-> ok, note |-> note, was |-> EmptyMaze, asked |-> None,
     wrote |-> ""]

Min2(a, b) == IF a < b THEN a ELSE b
Max2(a, b) == IF a > b THEN a ELSE b

\* a sync that leaves the selected value as it was
SyncElementValueKept(prev, elements) == prev

\* syncSelectionState: the selections that fit the new maze data
SyncElementValue(prev, elements) ==
    IF Len(elements) > 0
    THEN IF prev \in ValuesOf(elements) THEN prev ELSE elements[1].value
    ELSE prev

SyncLayer(prev, wallElements) ==
    IF prev = "walls" /\ Len(wallElements) = 0 THEN "cells" ELSE prev

SyncLevelIndex(prev, data) ==
    IF is3DMazeType(data.maze_type)
    THEN Min2(prev, Max2(0, Len(data.levels) - 1))
    ELSE 0

syncSelectionState(data) ==
    /\ selectedElementValue' = SyncElementValue(selectedElementValue, data.elements)
    /\ selectedWallElementValue' =
           SyncElementValue(selectedWallElementValue, data.wall_elements)
    /\ selectedLayer' = SyncLayer(selectedLayer, data.wall_elements)
    /\ selectedLevelIndex' = SyncLevelIndex(selectedLevelIndex, data)

\* an apply that takes the data of the result and keeps the text
applyMazeResultDataOnly(result) ==
    /\ mazeData' = result.data
    /\ syncSelectionState(result.data)
    /\ error' = NoError
    /\ UNCHANGED input

applyMazeResult(result) ==
    /\ input' = result.text
    /\ mazeData' = result.data
    /\ syncSelectionState(result.data)
    /\ error' = NoError

\* String(err)
ErrorText(err) == "PythonError: " \o err

(***************************************************************************)
(* What a handler does with its call: nothing (an early return), apply the *)
(* result, or show the error it caught.                                    *)
(***************************************************************************)
Ignored ==
    [kind |-> "ignored", result |-> Failed(""), note |-> "", was |-> EmptyMaze,
     asked |-> None]
Tried(result, note) ==
    [kind |-> IF result.ok THEN "apply" ELSE "error", result |-> result,
     note |-> note, was |-> EmptyMaze, asked |-> None]

\* a handler whose catch also drops the maze on display, as parse does
SettleClearing(op, outcome) ==
    CASE outcome.kind = "apply" ->
            /\ applyMazeResult(outcome.result)
            /\ UNCHANGED async
            /\ last' = [Did(op, TRUE, outcome.note) EXCEPT !.was = outcome.was,
                                                         !.asked = outcome.asked]
            /\ UNCHANGED loading
      [] outcome.kind = "error" ->
            /\ error' = ErrorText(outcome.result.err)
            /\ mazeData' = NoMaze
            /\ UNCHANGED async
            /\ last' = [Did(op, FALSE, outcome.note) EXCEPT !.asked = outcome.asked]
            /\ UNCHANGED <<loading, input, selection>>
      [] OTHER -> UNCHANGED vars

\* try { applyMazeResult(await call) } catch (err) { setError(String(err)) }
Settle(op, outcome) ==
    CASE outcome.kind = "apply" ->
            /\ applyMazeResult(outcome.result)
            /\ UNCHANGED async
            /\ last' = [Did(op, TRUE, outcome.note) EXCEPT !.was = outcome.was,
                                                         !.asked = outcome.asked,
                                                         !.wrote = outcome.result.wrote]
            /\ UNCHANGED loading
      [] outcome.kind = "error" ->
            /\ error' = ErrorText(outcome.result.err)
            /\ UNCHANGED async
            /\ last' = [Did(op, FALSE, outcome.note) EXCEPT !.asked = outcome.asked,
                                                          !.wrote = outcome.result.wrote]
            /\ UNCHANGED <<loading, input, mazeData, selection>>
      [] OTHER -> UNCHANGED vars

Init ==
    /\ loading = TRUE
    /\ error = NoError
    /\ input = DEFAULT_OCCUPANCY_YAML
    /\ mazeData = NoMaze
    /\ selectedElementValue = 0
    /\ selectedWallElementValue = 1
    /\ selectedLayer = "cells"
    /\ selectedLevelIndex = 0
    /\ last = Did("none", TRUE, "")
    /\ pending = <<>>
    /\ pyodide = NotLoaded

\* the effect that loads Pyodide and parses the default maze
Initialize ==
    /\ loading
    /\ loading' = FALSE
    /\ applyMazeResult(parseMaze(DEFAULT_OCCUPANCY_YAML))
    /\ UNCHANGED async
    /\ last' = Did("initialize", TRUE, "")

\* the same effect when Pyodide fails to load
InitializeFailed ==
    /\ loading
    /\ loading' = FALSE
    /\ error' = "Failed to load Pyodide: " \o "error"
    /\ UNCHANGED async
    /\ last' = Did("initialize", FALSE, "")
    /\ UNCHANGED <<input, mazeData, selection>>

\* clearError: setError(null)
ClearError ==
    /\ ~loading
    /\ error' = NoError
    /\ UNCHANGED async
    /\ last' = Did("clearError", TRUE, "")
    /\ UNCHANGED <<loading, input, mazeData, selection>>

(***************************************************************************)
(* Notes for the bookkeeping: how the hub size stored in the text a radial *)
(* operation worked on compares with the minimum of the maze it produced   *)
(* ("below": it had to be raised), and how an explicit request compares    *)
(* with the minimum of the maze it was made on.                            *)
(***************************************************************************)
IsRadialText(text) == text.kind = "yaml" /\ text.doc.maze_type = "radial_arm"

HubNote(yamlText, result) ==
    IF ~result.ok \/ ~IsRadialText(yamlText) \/ result.data.maze_type # "radial_arm"
    THEN ""
    ELSE IF NumLess(HubSizeOf(yamlText.doc.hub),
                    HubMinimum(result.data.hub, result.data.arms))
    THEN "below"
    ELSE IF NumLess(HubMinimum(result.data.hub, result.data.arms),
                    HubMinimum(yamlText.doc.hub, yamlText.doc.arms))
    THEN "above, minimum lowered"
    ELSE "above"

RequestNote(yamlText, size) ==
    IF ~IsRadialText(yamlText) \/ ~from_text(yamlText).ok THEN ""
    ELSE IF NumLess(size, HubMinimum(yamlText.doc.hub, yamlText.doc.arms))
    THEN "below"
    ELSE IF NumLess(HubMinimum(yamlText.doc.hub, yamlText.doc.arms), size)
    THEN "above"
    ELSE "at minimum"

\* the cell grids a resize works on, and their shapes
CellGrids(data) ==
    CASE data.maze_type = "occupancy_grid" -> <<data.grid>>
      [] data.maze_type = "edge_grid" -> <<data.cells>>
      [] data.maze_type = "edge_grid_3d" ->
            [i \in 1..Len(data.levels) |-> data.levels[i].layout.cells]
      [] OTHER -> << >>

Shapes(data) ==
    [i \in 1..Len(CellGrids(data)) |-> <<Rows(CellGrids(data)[i]), Cols(CellGrids(data)[i])>>]

Grown(before, after) ==
    /\ Len(Shapes(before)) = Len(Shapes(after))
    /\ Shapes(before) # Shapes(after)
    /\ \A i \in 1..Len(Shapes(before)) :
          /\ Shapes(before)[i][1] <= Shapes(after)[i][1]
          /\ Shapes(before)[i][2] <= Shapes(after)[i][2]

(***************************************************************************)
(* The handlers of the hook.                                               *)
(***************************************************************************)
SetInput(text) ==
    /\ ~loading
    /\ input' = text
    /\ UNCHANGED async
    /\ last' = Did("setInput", TRUE, "")
    /\ UNCHANGED <<loading, error, mazeData, selection>>

SetSelectedElementValue(value) ==
    /\ ~loading
    /\ selectedElementValue' = value
    /\ UNCHANGED async
    /\ last' = Did("select", TRUE, "")
    /\ UNCHANGED <<loading, error, input, mazeData, selectedWallElementValue,
                   selectedLayer, selectedLevelIndex>>

SetSelectedWallElementValue(value) ==
    /\ ~loading
    /\ selectedWallElementValue' = value
    /\ UNCHANGED async
    /\ last' = Did("select", TRUE, "")
    /\ UNCHANGED <<loading, error, input, mazeData, selectedElementValue,
                   selectedLayer, selectedLevelIndex>>

SetSelectedLayer(layer) ==
    /\ ~loading
    /\ selectedLayer' = layer
    /\ UNCHANGED async
    /\ last' = Did("select", TRUE, "")
    /\ UNCHANGED <<loading, error, input, mazeData, selectedElementValue,
                   selectedWallElementValue, selectedLevelIndex>>

SetSelectedLevelIndex(index) ==
    /\ ~loading
    /\ selectedLevelIndex' = index
    /\ UNCHANGED async
    /\ last' = Did("select", TRUE, "")
    /\ UNCHANGED <<loading, error, input, mazeData, selectedElementValue,
                   selectedWallElementValue, selectedLayer>>

\* parse(): the text is kept; a failure clears the maze data
SettleParse(result) ==
    IF result.ok
    THEN /\ mazeData' = result.data
         /\ syncSelectionState(result.data)
         /\ error' = NoError
         /\ UNCHANGED async
         /\ last' = Did("parse", TRUE, "")
         /\ UNCHANGED <<loading, input>>
    ELSE /\ error' = ErrorText(result.err)
         /\ mazeData' = NoMaze
         /\ UNCHANGED async
         /\ last' = Did("parse", FALSE, "")
         /\ UNCHANGED <<loading, input, selection>>

Parse == ~loading /\ SettleParse(parseMaze(input))

\* format(): formatMaze, setInput, parse(result), setError(null)
SettleFormat(formatted, result) ==
    IF ~formatted.ok
    THEN /\ error' = ErrorText(formatted.err)
         /\ UNCHANGED async
         /\ last' = Did("format", FALSE, "")
         /\ UNCHANGED <<loading, input, mazeData, selection>>
    ELSE /\ input' = formatted.text
         /\ IF result.ok
            THEN mazeData' = result.data /\ syncSelectionState(result.data)
            ELSE mazeData' = NoMaze /\ UNCHANGED selection
         /\ error' = NoError
         /\ UNCHANGED async
         /\ last' = Did("format", TRUE, "")
         /\ UNCHANGED loading

Format ==
    ~loading /\ SettleFormat(formatMaze(input), parseMaze(formatMaze(input).text))

\* the value the displayed maze holds at a clicked cell (undefined: -1)
ValueAt(grid, row, col) == IF InGrid(grid, row, col) THEN grid[row + 1][col + 1] ELSE -1

DisplayedLevel == 
    IF selectedLevelIndex < Len(mazeData.levels)
    THEN mazeData.levels[selectedLevelIndex + 1].layout
    ELSE BlankEdge(0, 0, 0, 0)

updateCell(row, col) ==
    IF mazeData = NoMaze THEN Ignored
    ELSE IF mazeData.maze_type = "radial_arm" THEN Ignored
    ELSE LET is3D == is3DMazeType(mazeData.maze_type)
             isOccupancyGrid == mazeData.maze_type = "occupancy_grid"
             paintValue == IF isOccupancyGrid /\ selectedLayer = "walls"
                           THEN selectedWallElementValue
                           ELSE selectedElementValue
             currentVal == IF is3D THEN ValueAt(DisplayedLevel.cells, row, col)
                           ELSE IF isOccupancyGrid THEN ValueAt(mazeData.grid, row, col)
                           ELSE ValueAt(mazeData.cells, row, col)
         IN  IF currentVal = paintValue THEN Ignored
             ELSE IF is3D
             THEN Tried(update3DMazeCell(input, selectedLevelIndex, row, col, paintValue,
                                         IF isOccupancyGrid THEN "grid" ELSE "cells"), "")
             ELSE Tried(updateMaze(input, row, col, paintValue,
                                   IF isOccupancyGrid THEN "grid" ELSE "cells"), "")

UpdateCell(row, col) == ~loading /\ Settle("updateCell", updateCell(row, col))

updateWall(row, col, wallType) ==
    IF mazeData = NoMaze THEN Ignored
    ELSE IF mazeData.maze_type \notin {"edge_grid", "edge_grid_3d"} THEN Ignored
    ELSE LET is3D == is3DMazeType(mazeData.maze_type)
             shown == IF is3D THEN DisplayedLevel ELSE mazeData
             currentVal == IF wallType = "vertical"
                           THEN ValueAt(shown.vertical_walls, row, col)
                           ELSE ValueAt(shown.horizontal_walls, row, col)
             gridType == IF wallType = "vertical" THEN "vertical_walls"
                         ELSE "horizontal_walls"
         IN  IF currentVal = selectedWallElementValue THEN Ignored
             ELSE IF is3D
             THEN Tried(update3DMazeCell(input, selectedLevelIndex, row, col,
                                         selectedWallElementValue, gridType), "")
             ELSE Tried(updateMaze(input, row, col, selectedWallElementValue, gridType), "")

UpdateWall(row, col, wallType) ==
    ~loading /\ Settle("updateWall", updateWall(row, col, wallType))

DisplayedArm(armIndex) ==
    IF armIndex < Len(mazeData.arms) THEN mazeData.arms[armIndex + 1]
    ELSE BlankEdge(0, 0, 0, 0)

updateRadialCell(armIndex, row, col) ==
    IF mazeData = NoMaze THEN Ignored
    ELSE IF mazeData.maze_type # "radial_arm" THEN Ignored
    ELSE IF ValueAt(DisplayedArm(armIndex).cells, row, col) = selectedElementValue
    THEN Ignored
    ELSE Tried(updateRadialArmCell(input, armIndex, row, col,
                                   selectedElementValue, "cells"), "")

UpdateRadialCell(armIndex, row, col) ==
    ~loading /\ Settle("updateRadialCell", updateRadialCell(armIndex, row, col))

updateRadialWall(armIndex, row, col, wallType) ==
    IF mazeData = NoMaze THEN Ignored
    ELSE IF mazeData.maze_type # "radial_arm" THEN Ignored
    ELSE LET arm == DisplayedArm(armIndex)
             currentVal == IF wallType = "vertical"
                           THEN ValueAt(arm.vertical_walls, row, col)
                           ELSE ValueAt(arm.horizontal_walls, row, col)
             gridType == IF wallType = "vertical" THEN "vertical_walls"
                         ELSE "horizontal_walls"
         IN  IF currentVal = selectedWallElementValue THEN Ignored
             ELSE Tried(updateRadialArmCell(input, armIndex, row, col,
                                            selectedWallElementValue, gridType), "")

UpdateRadialWall(armIndex, row, col, wallType) ==
    ~loading /\ Settle("updateRadialWall", updateRadialWall(armIndex, row, col, wallType))

\* bookkeeping of a resize: "grown" when no grid lost a row or a column and
\* one gained some; "grown, then shrunk back" when the resize right after
\* a "grown" one returns to the shape from before it; .was is the maze from
\* before the growth, kept through both steps
ResizeNoted(result, before) ==
    IF ~result.ok THEN Tried(result, "")
    ELSE IF /\ last.op = "resize" /\ last.ok /\ last.note = "grown"
            /\ Shapes(result.data) = Shapes(last.was)
    THEN [Tried(result, "grown, then shrunk back") EXCEPT !.was = last.was]
    ELSE IF Grown(before, result.data)
    THEN [Tried(result, "grown") EXCEPT !.was = before]
    ELSE Tried(result, "")

ResizeOutcome(result) == ResizeNoted(result, _extract_maze_data(Spelled(input)))

resize(rows, cols) ==
    IF mazeData = NoMaze THEN Ignored
    ELSE ResizeOutcome(resizeMaze(input, rows, cols, selectedElementValue))

Resize(rows, cols) == ~loading /\ Settle("resize", resize(rows, cols))

\* the outcome of a radial operation, with its note on the hub
TriedHub(result) == Tried(result, HubNote(input, result))

resizeArm(armIndex, width, length) ==
    IF mazeData = NoMaze THEN Ignored
    ELSE IF mazeData.maze_type # "radial_arm" THEN Ignored
    ELSE TriedHub(resizeRadialArm(input, armIndex, width, length,
                                  selectedElementValue, selectedWallElementValue))

ResizeArm(armIndex, width, length) ==
    ~loading /\ Settle("resizeArm", resizeArm(armIndex, width, length))

setArmCount(count) ==
    IF mazeData = NoMaze THEN Ignored
    ELSE IF mazeData.maze_type # "radial_arm" THEN Ignored
    ELSE IF count < 1 THEN Ignored
    ELSE TriedHub(setRadialArmCount(input, count, selectedElementValue,
                                    selectedWallElementValue))

SetArmCount(count) == ~loading /\ Settle("setArmCount", setArmCount(count))

setAngle(degrees) ==
    IF mazeData = NoMaze THEN Ignored
    ELSE IF mazeData.maze_type # "radial_arm" THEN Ignored
    ELSE IF degrees < 1 \/ degrees > 360 THEN Ignored
    ELSE TriedHub(setRadialArmAngle(input, degrees))

SetAngle(degrees) == ~loading /\ Settle("setAngle", setAngle(degrees))

setHubSize(size) ==
    IF mazeData = NoMaze THEN Ignored
    ELSE IF mazeData.maze_type # "radial_arm" THEN Ignored
    ELSE IF size.n <= 0 THEN Ignored
    ELSE [Tried(setRadialArmHubSize(input, size), RequestNote(input, size))
             EXCEPT !.asked = size]

SetHubSize(size) == ~loading /\ Settle("setHubSize", setHubSize(size))

setLevelCountAction(count) ==
    IF mazeData = NoMaze THEN Ignored
    ELSE IF ~is3DMazeType(mazeData.maze_type) THEN Ignored
    ELSE IF count < 1 THEN Ignored
    ELSE [Tried(setLevelCount(input, count, selectedElementValue,
                              selectedWallElementValue), "")
             EXCEPT !.asked = Rat(count, 1)]

SetLevelCountAction(count) ==
    ~loading /\ Settle("setLevelCount", setLevelCountAction(count))

\* create(type, hubType): the result is applied, then setSelectedLayer('cells')
\* addNewElement: nothing without a maze, a name and a token; a token of
\* more than one character is refused before any call
TokenRefused == "Token must be a single character"

\* the note of an addElement call: what was asked for
Request(type, name, token) == type \o " " \o name \o " " \o token

addNewElement(name, token, type) ==
    IF mazeData = NoMaze \/ name = "" \/ token = "" THEN Ignored
    ELSE Tried(addElement(input, name, token, type), Request(type, name, token))

AddNewElement(name, token, type) ==
    /\ ~loading
    /\ IF mazeData # NoMaze /\ name # "" /\ token # "" /\ Len(token) # 1
       THEN /\ error' = TokenRefused
            /\ UNCHANGED async
            /\ last' = Did("addElement", FALSE, Request(type, name, token))
            /\ UNCHANGED <<loading, input, mazeData, selection>>
       ELSE Settle("addElement", addNewElement(name, token, type))

SettleCreate(result) ==
    IF result.ok
    THEN /\ input' = result.text
         /\ mazeData' = result.data
         /\ selectedElementValue' =
                SyncElementValue(selectedElementValue, result.data.elements)
         /\ selectedWallElementValue' =
                SyncElementValue(selectedWallElementValue, result.data.wall_elements)
         /\ selectedLevelIndex' = SyncLevelIndex(selectedLevelIndex, result.data)
         /\ selectedLayer' = "cells"
         /\ error' = NoError
         /\ UNCHANGED async
         /\ last' = Did("create", TRUE, "")
         /\ UNCHANGED loading
    ELSE /\ error' = ErrorText(result.err)
         /\ UNCHANGED async
         /\ last' = Did("create", FALSE, "")
         /\ UNCHANGED <<loading, input, mazeData, selection>>

Create(type, hubType) == ~loading /\ SettleCreate(createNewMaze(type, hubType))

(***************************************************************************)
(* The handlers of the earlier App component, which calls the service      *)
(* with the text and the selected value: setInput(text), setMazeData(data),*)
(* setError(null), or setError(err.toString()).                            *)
(***************************************************************************)
SettleLegacy(op, outcome) ==
    CASE outcome.kind = "apply" ->
            /\ input' = outcome.result.text
            /\ mazeData' = outcome.result.data
            /\ error' = NoError
            /\ UNCHANGED async
            /\ last' = [Did(op, TRUE, outcome.note) EXCEPT !.wrote = outcome.result.wrote]
            /\ UNCHANGED <<loading, selection>>
      [] outcome.kind = "error" ->
            /\ error' = ErrorText(outcome.result.err)
            /\ UNCHANGED async
            /\ last' = [Did(op, FALSE, outcome.note) EXCEPT !.wrote = outcome.result.wrote]
            /\ UNCHANGED <<loading, input, mazeData, selection>>
      [] OTHER -> UNCHANGED vars

handleCellClick(row, col, writable) ==
    IF mazeData = NoMaze THEN Ignored
    ELSE IF ValueAt(mazeData.grid, row, col) = selectedElementValue THEN Ignored
    ELSE Tried(legacy_updateMaze(input, row, col, selectedElementValue, "grid", writable), "")

HandleCellClick(row, col, writable) ==
    ~loading /\ SettleLegacy("handleCellClick", handleCellClick(row, col, writable))

handleResize(rows, cols, writable) ==
    IF mazeData = NoMaze THEN Ignored
    ELSE Tried(legacy_resizeMaze(input, rows, cols, selectedElementValue, writable), "")

HandleResize(rows, cols, writable) ==
    ~loading /\ SettleLegacy("handleResize", handleResize(rows, cols, writable))

(***************************************************************************)
(* What the user does.                                                     *)
(***************************************************************************)
\* the cell and the wall slots the user clicks: the first of each grid
Clicks == {<<0, 0>>}
WallTypes == {"vertical", "horizontal"}
HubTypes == {"circular", "polygon"}
\* the sizes the size controls are set to
Dims == 1..MaxDim

\* the editor as it stands once a result is on display
Showing(result, did) ==
    /\ loading = FALSE
    /\ error = NoError
    /\ input = result.text
    /\ mazeData = result.data
    /\ selectedElementValue = 0
    /\ selectedWallElementValue = 1
    /\ selectedLayer = "cells"
    /\ selectedLevelIndex = 0
    /\ last = did
    /\ pending = <<>>
    /\ pyodide = NotLoaded

(***************************************************************************)
(* Spec, the editor: every handler and every maze type.  The user also     *)
(* types text that is no maze document.  The radial controls are set to    *)
(* an angle the default hub is too small for (45), and to hub sizes below  *)
(* and above the minimum, the arm count to none, one or two arms; on an    *)
(* arm the user paints a vertical wall.  New radial mazes have a circular  *)
(* hub; SpecHub has both hub shapes.                                       *)
(***************************************************************************)
Angles == {0, 45, 360}
HubRequests == {Rat(0, 1), Rat(1, 10), Rat(3, 1)}
UserTexts == {Garbage}
ArmCounts == {0, 1, 2}

Next ==
    \/ Initialize
    \/ InitializeFailed
    \/ ClearError
    \/ \E text \in UserTexts : SetInput(text)
    \/ \E value \in ValuesOf(mazeData.elements) : SetSelectedElementValue(value)
    \/ \E value \in ValuesOf(mazeData.wall_elements) : SetSelectedWallElementValue(value)
    \/ Parse
    \/ Format
    \/ \E type \in MazeTypes : Create(type, "circular")
    \/ \E click \in Clicks : UpdateCell(click[1], click[2])
    \/ \E click \in Clicks, wallType \in WallTypes : UpdateWall(click[1], click[2], wallType)
    \/ \E click \in Clicks : UpdateRadialWall(0, click[1], click[2], "vertical")
    \/ \E size \in Dims : Resize(size, size)
    \/ \E width \in Dims : ResizeArm(0, width, 1)
    \/ \E count \in ArmCounts : SetArmCount(count)
    \/ \E degrees \in Angles : SetAngle(degrees)
    \/ \E size \in HubRequests : SetHubSize(size)

Spec == Init /\ [][Next]_vars

(***************************************************************************)
(* SpecHub, the hub of a radial maze: a new radial maze of either hub      *)
(* shape, then the arm count, arm width, angle and hub size controls.      *)
(* Arms stay one cell long.                                                *)
(***************************************************************************)
HubAngles == {0, 180, 360, 450}
\* 0; below, at (6/Pi) and above (1.91) the minimum of four arms of width 3
\* over 360 degrees; the polygon minimums 2 and 3
HubSizes == {Rat(0, 1), Rat(19, 10), Num(6, 1, TRUE), Rat(191, 100), Rat(2, 1), Rat(3, 1)}

InitHub ==
    \E hubType \in HubTypes :
        Showing(createNewMaze("radial_arm", hubType), Did("create", TRUE, ""))

NextHub ==
    \/ \E armIndex \in {0, 1}, width \in 1..HubWidth : ResizeArm(armIndex, width, 1)
    \/ \E count \in 0..HubArms : SetArmCount(count)
    \/ \E degrees \in HubAngles : SetAngle(degrees)
    \/ \E size \in HubSizes : SetHubSize(size)

SpecHub == InitHub /\ [][NextHub]_vars

(***************************************************************************)
(* SpecLattice, the wall lattices: a new maze of each type with edge-      *)
(* shaped layouts, then resizes, arm resizes and arm counts; and a pasted  *)
(* edge grid whose horizontal walls miss their last row.                   *)
(***************************************************************************)
BadLatticeMaze == [DefaultEdgeMaze EXCEPT !.horizontal_walls = OuterRows(MaxDim, MaxDim)]

InitLattice ==
    \E type \in {"edge_grid", "edge_grid_3d", "radial_arm"} :
        Showing(createNewMaze(type, "circular"), Did("create", TRUE, ""))

NextLattice ==
    \/ \E rows \in Dims, cols \in Dims : Resize(rows, cols)
    \/ \E armIndex \in 0..(MaxArms - 1), width \in Dims, length \in Dims :
           ResizeArm(armIndex, width, length)
    \/ \E count \in 1..MaxArms : SetArmCount(count)
    \/ SetInput(Document(BadLatticeMaze, FALSE))
    \/ Parse

SpecLattice == InitLattice /\ [][NextLattice]_vars

(***************************************************************************)
(* SpecResize, the resize of grids: any occupancy grid of up to MaxDim     *)
(* rows and columns, the default edge grid or the default radial maze has  *)
(* been parsed; then resizes and arm resizes, with any fill selected.      *)
(***************************************************************************)
OccupancyGrids ==
    UNION {[1..rows -> [1..cols -> ValuesOf(OccupancyElements)]] : rows \in Dims, cols \in Dims}

ParsedTexts ==
    {Document([DefaultOccupancyMaze EXCEPT !.grid = grid], FALSE) : grid \in OccupancyGrids}
        \cup {DEFAULT_EDGE_YAML, DEFAULT_RADIAL_ARM_YAML}

InitResize ==
    \E text \in ParsedTexts :
        Showing([parseMaze(text) EXCEPT !.text = text], Did("parse", TRUE, ""))

NextResize ==
    \/ \E value \in ValuesOf(mazeData.elements) : SetSelectedElementValue(value)
    \/ \E value \in ValuesOf(mazeData.wall_elements) : SetSelectedWallElementValue(value)
    \/ \E rows \in Dims, cols \in Dims : Resize(rows, cols)
    \/ \E width \in Dims, length \in Dims : ResizeArm(0, width, length)

SpecResize == InitResize /\ [][NextResize]_vars

(***************************************************************************)
(* SpecLegacy, the earlier App over the earlier service: an occupancy grid *)
(* of up to MaxDim rows and columns has been parsed; then cell clicks and  *)
(* resizes with either cell value selected, against either library.        *)
(***************************************************************************)
InitLegacy ==
    \E grid \in OccupancyGrids :
        Showing(parseMaze(Document([DefaultOccupancyMaze EXCEPT !.grid = grid], TRUE)),
                Did("parse", TRUE, ""))

NextLegacy ==
    \/ \E value \in ValuesOf(mazeData.elements) : SetSelectedElementValue(value)
    \/ \E row \in 0..(MaxDim - 1), col \in 0..(MaxDim - 1), writable \in BOOLEAN :
           HandleCellClick(row, col, writable)
    \/ \E rows \in Dims, cols \in Dims, writable \in BOOLEAN :
           HandleResize(rows, cols, writable)
    \/ ClearError

SpecLegacy == InitLegacy /\ [][NextLegacy]_vars

(***************************************************************************)
(* SpecFormat, the text panel: a default maze of one of the types is on    *)
(* display; the user replaces the text by another document or by something *)
(* that is none, parses, formats, and paints the first cell or wall slot.  *)
(***************************************************************************)
TypedTexts ==
    {DEFAULT_OCCUPANCY_YAML, DEFAULT_EDGE_YAML, DEFAULT_RADIAL_ARM_YAML,
     DEFAULT_EDGE_GRID_3D_YAML}

InitFormat ==
    \E text \in TypedTexts :
        Showing([parseMaze(text) EXCEPT !.text = text], Did("parse", TRUE, ""))

NextFormat ==
    \/ ClearError
    \/ \E text \in TypedTexts \cup {Garbage} : SetInput(text)
    \/ \E value \in ValuesOf(mazeData.elements) : SetSelectedElementValue(value)
    \/ \E value \in ValuesOf(mazeData.wall_elements) : SetSelectedWallElementValue(value)
    \/ Parse
    \/ Format
    \/ \E click \in Clicks : UpdateCell(click[1], click[2])
    \/ \E click \in Clicks, wallType \in WallTypes : UpdateWall(click[1], click[2], wallType)

SpecFormat == InitFormat /\ [][NextFormat]_vars

(***************************************************************************)
(* Spec3D, the floors of a 3D maze: the default 3D maze is on display and  *)
(* the user has typed a document of two floors of 1 x 2 cells with no      *)
(* connector or with one connector (of either type, between any two levels *)
(* up to one past the last floor, at any two cells); then the user parses  *)
(* it, sets the level count, resizes all floors and paints the first cell. *)
(***************************************************************************)
MaxLevels == 3

TwoFloors ==
    [DefaultEdgeGrid3DMaze EXCEPT
        !.levels = <<Level(LevelName(0), 0, BlankEdge(1, 2, 0, 1)),
                     Level(LevelName(1), 1, BlankEdge(1, 2, 0, 1))>>]

TypedConnectors ==
    {Connector(kind, Endpoint(0, 0, 0), Endpoint(level, 0, col)) :
        kind \in {"elevator", "escalator"}, level \in 0..2, col \in 0..1}
    \cup {Connector("elevator", Endpoint(1, 0, 1), Endpoint(0, 0, 1))}

Texts3D ==
    {Document(TwoFloors, FALSE)}
        \cup {Document([TwoFloors EXCEPT !.connectors = <<connector>>], FALSE) :
                  connector \in TypedConnectors}

Init3D ==
    \E text \in Texts3D :
        Showing([createNewMaze("edge_grid_3d", "circular") EXCEPT !.text = text],
                Did("setInput", TRUE, ""))

Next3D ==
    \/ Parse
    \/ \E value \in ValuesOf(mazeData.elements) : SetSelectedElementValue(value)
    \/ \E count \in 0..MaxLevels : SetLevelCountAction(count)
    \/ \E cols \in 1..2 : Resize(1, cols)
    \/ \E click \in Clicks : UpdateCell(click[1], click[2])

Spec3D == Init3D /\ [][Next3D]_vars

(***************************************************************************)
(* SpecElements, the element sets: the default edge grid is on display and *)
(* the user has typed a document of a one-cell edge grid that declares one *)
(* or two cell elements without values, or with a value that collides with *)
(* a reserved one, and one or two wall elements.  Then the user parses it, *)
(* adds elements (under a name that is missing or taken, with the token of *)
(* the name, a token that is taken, too long, blank, '|' or missing) and   *)
(* resizes the grid to one or two columns.                                 *)
(***************************************************************************)
TypedNames == {"open", "wall", "door"}

TypedToken(name) ==
    IF name = "open" THEN "." ELSE IF name = "wall" THEN "#" ELSE "D"

TypedElement(name, value) == Element(name, TypedToken(name), value)

TypedDeclarations ==
    {<<TypedElement(a, NoValue)>> : a \in TypedNames}
        \cup {<<TypedElement(pair[1], NoValue), TypedElement(pair[2], NoValue)>> :
                  pair \in {p \in TypedNames \X TypedNames : p[1] # p[2]}}
        \cup {<<TypedElement("door", 0)>>,
              <<TypedElement("door", 0), TypedElement("open", NoValue)>>,
              <<TypedElement("open", 1), TypedElement("wall", NoValue)>>}

TypedWallDeclarations ==
    {Undeclared(EdgeWallElements), <<TypedElement("wall", NoValue)>>}

\* a layout of one cell, every cell and every wall slot holding one token
OneCell(cell_token, wall_token) ==
    EdgeGridLayout(<<<<cell_token>>>>, <<<<wall_token, wall_token>>>>,
                   <<<<wall_token>>, <<wall_token>>>>)

TypedEdgeDocument(cells, walls) ==
    [kind |-> "yaml", numbered |-> FALSE,
     doc |-> [EmptyMaze EXCEPT
                 !.form = "text",
                 !.maze_type = "edge_grid",
                 !.elements = cells,
                 !.wall_elements = walls,
                 !.cells = OneCell(cells[1].token, walls[1].token).cells,
                 !.vertical_walls = OneCell(cells[1].token, walls[1].token).vertical_walls,
                 !.horizontal_walls =
                     OneCell(cells[1].token, walls[1].token).horizontal_walls]]

AskedNames == TypedNames \cup {""}
AskedTokens(name) == {TypedToken(name), ".", "DD", " ", "|", ""}
ElementTypes == {"cell", "wall"}

InitElements ==
    \E cells \in TypedDeclarations, walls \in TypedWallDeclarations :
        Showing([createNewMaze("edge_grid", "circular") EXCEPT
                    !.text = TypedEdgeDocument(cells, walls)],
                Did("setInput", TRUE, ""))

NextElements ==
    \/ Parse
    \/ \E name \in AskedNames, type \in ElementTypes :
           \E token \in AskedTokens(name) : AddNewElement(name, token, type)
    \/ \E cols \in 1..2 : Resize(1, cols)

SpecElements == InitElements /\ [][NextElements]_vars

(***************************************************************************)
(* RadialArmGrid, the drawing of a radial maze: renderArm places an arm at *)
(* the distance armCenterDistance from the hub centre.  For a circular hub *)
(* that distance is sqrt(max(0, R^2 - (W/2)^2)); the model keeps the       *)
(* number under the root exact: 0 when the clamp acted, and otherwise the  *)
(* difference of the squares of the two numbers it names.  Lengths are in  *)
(* cells (the program multiplies both by cellSize).                        *)
(***************************************************************************)
\* sqrt(R^2 - (W/2)^2) with no clamp
armCenterDistanceSquaredUnclamped(hub, armWidth) ==
    [clamped |-> FALSE,
     of |-> IF IsNone(hub.radius) \/ hub.radius.n = 0 THEN Rat(2, 1) ELSE hub.radius,
     less |-> Rat(armWidth, 2)]

\* hubRadius = hub.radius || 2; halfWidth = armWidth / 2;
\* Math.max(0, radiusSquared - halfWidthSquared)
armCenterDistanceSquared(hub, armWidth) ==
    [clamped |-> NumLess(IF IsNone(hub.radius) \/ hub.radius.n = 0
                         THEN Rat(2, 1) ELSE hub.radius,
                         Rat(armWidth, 2)),
     of |-> IF IsNone(hub.radius) \/ hub.radius.n = 0 THEN Rat(2, 1) ELSE hub.radius,
     less |-> Rat(armWidth, 2)]

(***************************************************************************)
(* SpecRender, the hub under narrow and wide arms: a new radial maze with  *)
(* a circular hub, then the arm count, the width of the first arm and hub  *)
(* sizes between the validation's minimum and half an arm's width.         *)
(***************************************************************************)
RenderWidth == 2
RenderSizes == {Rat(1, 5), Rat(2, 5), Rat(1, 2), Rat(3, 4), Rat(1, 1), Rat(2, 1)}

InitRender ==
    Showing(createNewMaze("radial_arm", "circular"), Did("create", TRUE, ""))

NextRender ==
    \/ \E width \in 1..RenderWidth : ResizeArm(0, width, 1)
    \/ \E count \in 1..MaxArms : SetArmCount(count)
    \/ \E degrees \in {180, 360} : SetAngle(degrees)
    \/ \E size \in RenderSizes : SetHubSize(size)

SpecRender == InitRender /\ [][NextRender]_vars

(***************************************************************************)
(* Handlers whose awaits overlap.  A handler is an async callback: it runs *)
(* up to its await with the state of the render it was made in, and the    *)
(* rest of it runs when the service answers.  pending holds, oldest first, *)
(* the calls that have not been answered; answers come back in the order   *)
(* of the calls.  The answer of a call is settled by the arguments it was  *)
(* called with.  For an updateCell call, edit is the cell and the value it *)
(* paints and over the edits of the calls it found unanswered.             *)
(***************************************************************************)
NoFile == [kind |-> "none", numbered |-> FALSE, doc |-> EmptyMaze]

PaintValue ==
    IF mazeData.maze_type = "occupancy_grid" /\ selectedLayer = "walls"
    THEN selectedWallElementValue
    ELSE selectedElementValue

EditsOf(calls) ==
    SelectSeq([i \in 1..Len(calls) |-> calls[i].edit], LAMBDA edit : edit # <<>>)

Called(op, result, loaded, edit) ==
    [op |-> op, result |-> result, loaded |-> loaded, edit |-> edit,
     over |-> EditsOf(pending)]

\* updateCell up to its await: the early returns, then the call made with
\* the input of the render the callback was made in
StartUpdateCell(row, col) ==
    /\ ~loading
    /\ Len(pending) < MaxInFlight
    /\ updateCell(row, col).kind # "ignored"
    /\ pending' = Append(pending, Called("updateCell", updateCell(row, col).result,
                                         NoFile, <<row, col, PaintValue>>))
    /\ last' = Did("call", TRUE, "")
    /\ UNCHANGED <<loading, error, input, mazeData, selection, pyodide>>

\* updateCell after its await: applyMazeResult(result), or the catch
FinishUpdateCell ==
    /\ pending # <<>>
    /\ Head(pending).op = "updateCell"
    /\ IF Head(pending).result.ok
       THEN applyMazeResult(Head(pending).result)
       ELSE /\ error' = ErrorText(Head(pending).result.err)
            /\ UNCHANGED <<input, mazeData, selection>>
    /\ last' = Did("updateCell", Head(pending).result.ok, Head(pending))
    /\ pending' = Tail(pending)
    /\ UNCHANGED <<loading, pyodide>>

\* handleFileLoaded: maze.setInput(content); maze.parse().  parse() runs up
\* to its await at once: textToParse is the input of the render the callback
\* was made in, which setInput(content) has not changed yet
HandleFileLoaded(content) ==
    /\ ~loading
    /\ Len(pending) < MaxInFlight
    /\ input' = content
    /\ pending' = Append(pending, Called("parse", parseMaze(input), content, <<>>))
    /\ last' = Did("call", TRUE, "")
    /\ UNCHANGED <<loading, error, mazeData, selection, pyodide>>

\* parse after its await: setMazeData, syncSelectionState, setError(null),
\* or the catch: setError, setMazeData(null)
FinishParse ==
    /\ pending # <<>>
    /\ Head(pending).op = "parse"
    /\ IF Head(pending).result.ok
       THEN /\ mazeData' = Head(pending).result.data
            /\ syncSelectionState(Head(pending).result.data)
            /\ error' = NoError
       ELSE /\ error' = ErrorText(Head(pending).result.err)
            /\ mazeData' = NoMaze
            /\ UNCHANGED selection
    /\ last' = Did("parse", Head(pending).result.ok, Head(pending))
    /\ pending' = Tail(pending)
    /\ UNCHANGED <<loading, input, pyodide>>

(***************************************************************************)
(* SpecOverlap, a drag and a file load: the default occupancy grid is on   *)
(* display; the user drags along its first row with either value, faster   *)
(* than the service answers, and loads a file that parses or one that does *)
(* not.                                                                    *)
(***************************************************************************)
LoadedFiles ==
    {Document([DefaultOccupancyMaze EXCEPT !.grid = [i \in 1..1 |-> [j \in 1..MaxDim |-> 0]]], TRUE),
     Garbage}

InitOverlap ==
    Showing(parseMaze(DEFAULT_OCCUPANCY_YAML), Did("initialize", TRUE, ""))

NextOverlap ==
    \/ \E value \in ValuesOf(mazeData.elements) : SetSelectedElementValue(value)
    \/ \E col \in 0..(MaxDim - 1) : StartUpdateCell(0, col)
    \/ FinishUpdateCell
    \/ \E content \in LoadedFiles : HandleFileLoaded(content)
    \/ FinishParse

SpecOverlap == InitOverlap /\ [][NextOverlap]_vars

(***************************************************************************)
(* getPyodide.  pyodide.instance is the module's variable pyodide (0 for   *)
(* null, else the number of the runtime it holds); loads counts the calls  *)
(* of loadPyodide, each of which makes a runtime of its own; done[i] is    *)
(* what has completed on runtime i; at[c] is where the c-th caller of      *)
(* getPyodide stands and the runtime its awaited call works on; got[c] is  *)
(* what its call resolved to.  Between two awaits a caller runs alone.     *)
(***************************************************************************)
Stages == {"micropip", "PyYAML", "py_ant_maze", "helpers"}

Waiting == [instance |-> 0, complete |-> FALSE]

At(pc, on) == [pc |-> pc, on |-> on]

\* if (pyodide) return pyodide; pyodide = await loadPyodide(...)
GetPyodide ==
    /\ Len(pyodide.at) < MaxCallers
    /\ IF pyodide.instance # 0
       THEN pyodide' = [pyodide EXCEPT
                !.at = Append(@, At("returned", pyodide.instance)),
                !.got = Append(@, [instance |-> pyodide.instance,
                                   complete |-> pyodide.done[pyodide.instance] = Stages])]
       ELSE pyodide' = [pyodide EXCEPT
                !.loads = @ + 1,
                !.done = Append(@, {}),
                !.at = Append(@, At("loadPyodide", pyodide.loads + 1)),
                !.got = Append(@, Waiting)]
    /\ UNCHANGED <<loading, error, input, mazeData, selection, last, pending>>

\* loadPyodide resolves: pyodide = the new runtime;
\* await pyodide.loadPackage("micropip")
LoadPyodideResolves(c) ==
    /\ c \in 1..Len(pyodide.at)
    /\ pyodide.at[c].pc = "loadPyodide"
    /\ pyodide' = [pyodide EXCEPT !.instance = pyodide.at[c].on,
                                  !.at[c] = At("loadPackage", pyodide.at[c].on)]
    /\ UNCHANGED <<loading, error, input, mazeData, selection, last, pending>>

\* loadPackage resolves; micropip = pyodide.pyimport("micropip"), which
\* raises on a runtime that has no micropip yet;
\* await micropip.install("PyYAML")
LoadPackageResolves(c) ==
    /\ c \in 1..Len(pyodide.at)
    /\ pyodide.at[c].pc = "loadPackage"
    /\ pyodide' = [pyodide EXCEPT
            !.done[pyodide.at[c].on] = @ \cup {"micropip"},
            !.at[c] = IF pyodide.instance = pyodide.at[c].on
                         \/ "micropip" \in pyodide.done[pyodide.instance]
                      THEN At("installPyYAML", pyodide.instance)
                      ELSE At("rejected", pyodide.instance)]
    /\ UNCHANGED <<loading, error, input, mazeData, selection, last, pending>>

\* the install of PyYAML resolves; await micropip.install(wheel), with the
\* micropip this caller imported
InstallPyYAMLResolves(c) ==
    /\ c \in 1..Len(pyodide.at)
    /\ pyodide.at[c].pc = "installPyYAML"
    /\ pyodide' = [pyodide EXCEPT !.done[pyodide.at[c].on] = @ \cup {"PyYAML"},
                                  !.at[c] = At("installWheel", pyodide.at[c].on)]
    /\ UNCHANGED <<loading, error, input, mazeData, selection, last, pending>>

\* the runtime the module's variable holds once this caller's wheel is in,
\* seen from the runtime the caller installed on
HasPackages(c) ==
    \/ pyodide.instance = pyodide.at[c].on
    \/ {"PyYAML", "py_ant_maze"} \subseteq pyodide.done[pyodide.instance]

\* what has completed once this caller's wheel is in and the helpers are
\* defined on the runtime the module's variable holds
DoneAfterHelpers(c) ==
    [i \in 1..Len(pyodide.done) |->
        pyodide.done[i] \cup (IF i = pyodide.at[c].on THEN {"py_ant_maze"} ELSE {})
                        \cup (IF i = pyodide.instance THEN {"helpers"} ELSE {})]

\* the install of the wheel resolves; pyodide.runPython(helpers), which
\* imports yaml and py_ant_maze and raises where they are missing;
\* return pyodide
InstallWheelResolves(c) ==
    /\ c \in 1..Len(pyodide.at)
    /\ pyodide.at[c].pc = "installWheel"
    /\ IF HasPackages(c)
       THEN pyodide' = [pyodide EXCEPT
                !.done = DoneAfterHelpers(c),
                !.at[c] = At("returned", pyodide.instance),
                !.got[c] = [instance |-> pyodide.instance,
                            complete |-> DoneAfterHelpers(c)[pyodide.instance] = Stages]]
       ELSE pyodide' = [pyodide EXCEPT
                !.done[pyodide.at[c].on] = @ \cup {"py_ant_maze"},
                !.at[c] = At("rejected", pyodide.instance)]
    /\ UNCHANGED <<loading, error, input, mazeData, selection, last, pending>>

(***************************************************************************)
(* SpecLoader, the loading of the runtime: the editor has just been        *)
(* mounted; up to MaxCallers calls of getPyodide are made, at any moment   *)
(* of one another's progress.                                              *)
(***************************************************************************)
NextLoader ==
    \/ GetPyodide
    \/ \E c \in 1..MaxCallers : LoadPyodideResolves(c)
    \/ \E c \in 1..MaxCallers : LoadPackageResolves(c)
    \/ \E c \in 1..MaxCallers : InstallPyYAMLResolves(c)
    \/ \E c \in 1..MaxCallers : InstallWheelResolves(c)

SpecLoader == Init /\ [][NextLoader]_vars

(***************************************************************************)
(* exportImage.  The callback runs in steps: it shows level 0, waits for   *)
(* the grid to be drawn and captures it, shows the next level, and so on;  *)
(* between two of its steps the editor handles whatever the user does.     *)
(* While it runs, pending holds its position: the level it is showing, the *)
(* number of levels and the level selected when it was started, all as it  *)
(* found them in the render it was made in.                                *)
(***************************************************************************)
Exporting(i, levels, originalLevel) ==
    [op |-> "exportImage", i |-> i, levels |-> levels, originalLevel |-> originalLevel]

\* exportImage up to its first await
ExportImage ==
    /\ ~loading
    /\ pending = <<>>
    /\ IF mazeData # NoMaze /\ is3DMazeType(mazeData.maze_type) /\ Len(mazeData.levels) > 1
       THEN /\ selectedLevelIndex' = 0
            /\ pending' = <<Exporting(0, Len(mazeData.levels), selectedLevelIndex)>>
       ELSE /\ pending' = <<Exporting(0, 1, selectedLevelIndex)>>
            /\ UNCHANGED selectedLevelIndex
    /\ last' = Did("call", TRUE, "")
    /\ UNCHANGED <<loading, error, input, mazeData, selectedElementValue,
                   selectedWallElementValue, selectedLayer, pyodide>>

\* the capture of the level shown has been downloaded: the next level is
\* shown, or after the last one the original level again
ExportCaptured ==
    /\ pending # <<>>
    /\ Head(pending).op = "exportImage"
    /\ IF Head(pending).i + 1 < Head(pending).levels
       THEN /\ selectedLevelIndex' = Head(pending).i + 1
            /\ pending' = <<[Head(pending) EXCEPT !.i = @ + 1]>>
            /\ last' = Did("capture", TRUE, "")
       ELSE /\ IF Head(pending).levels > 1
               THEN selectedLevelIndex' = Head(pending).originalLevel
               ELSE UNCHANGED selectedLevelIndex
            /\ pending' = <<>>
            /\ last' = Did("exportImage", TRUE, Head(pending))
    /\ UNCHANGED <<loading, error, input, mazeData, selectedElementValue,
                   selectedWallElementValue, selectedLayer, pyodide>>

\* the capture throws: catch (err) { console.error; onError(...) }
ExportFailed ==
    /\ pending # <<>>
    /\ Head(pending).op = "exportImage"
    /\ pending' = <<>>
    /\ last' = Did("exportImage", FALSE, Head(pending))
    /\ UNCHANGED <<loading, error, input, mazeData, selection, pyodide>>

(***************************************************************************)
(* SpecExport, levels and their pictures: the default 3D edge grid is on   *)
(* display; the user selects levels, sets the level count, creates 2D and  *)
(* 3D mazes, parses the text and exports images, whose captures succeed or *)
(* fail.                                                                   *)
(***************************************************************************)
InitExport ==
    Showing(createNewMaze("edge_grid_3d", "circular"), Did("create", TRUE, ""))

NextExport ==
    \/ \E index \in 0..(Len(mazeData.levels) - 1) : SetSelectedLevelIndex(index)
    \/ \E count \in 1..MaxLevels : SetLevelCountAction(count)
    \/ \E type \in {"edge_grid", "edge_grid_3d"} : Create(type, "circular")
    \/ Parse
    \/ ExportImage
    \/ ExportCaptured
    \/ ExportFailed

SpecExport == InitExport /\ [][NextExport]_vars

(***************************************************************************)
(* SpecSelection, the palette: a default maze of one of the types is on    *)
(* display; the user picks cell and wall values from the palette and, for  *)
(* a maze with wall elements, the layer; replaces the text by a document   *)
(* of another type or by something that is none; parses, formats, creates  *)
(* mazes and paints the first cell or wall slot.                           *)
(***************************************************************************)
Layers == {"cells", "walls"}

NextSelection ==
    \/ \E text \in TypedTexts \cup {Garbage} : SetInput(text)
    \/ \E value \in ValuesOf(mazeData.elements) : SetSelectedElementValue(value)
    \/ \E value \in ValuesOf(mazeData.wall_elements) : SetSelectedWallElementValue(value)
    \/ \E layer \in Layers : Len(mazeData.wall_elements) > 0 /\ SetSelectedLayer(layer)
    \/ Parse
    \/ Format
    \/ \E type \in MazeTypes : Create(type, "circular")
    \/ \E click \in Clicks : UpdateCell(click[1], click[2])
    \/ \E click \in Clicks, wallType \in WallTypes : UpdateWall(click[1], click[2], wallType)

SpecSelection == InitFormat /\ [][NextSelection]_vars

(***************************************************************************)
(* SpecArms, the arms of a radial maze: the default radial maze is on      *)
(* display; the user picks the wall value, resizes arms and sets the arm   *)
(* count to up to one more than MaxArms.                                   *)
(***************************************************************************)
NextArms ==
    \/ \E value \in ValuesOf(mazeData.wall_elements) : SetSelectedWallElementValue(value)
    \/ \E armIndex \in 0..(MaxArms - 1), width \in Dims, length \in Dims :
           ResizeArm(armIndex, width, length)
    \/ \E count \in 1..(MaxArms + 1) : SetArmCount(count)

SpecArms == InitRender /\ [][NextArms]_vars

(***************************************************************************)
(* Properties.                                                             *)
(***************************************************************************)
\* the handlers whose Python thaws the maze of the text, mutates the draft
\* and freezes it
FreezingOps ==
    {"updateCell", "updateWall", "updateRadialCell", "updateRadialWall", "resize",
     "resizeArm", "setArmCount", "setAngle", "setHubSize"}

\* C1: freeze is all-or-nothing.  A step of a handler that freezes a draft
\* either puts on display one fully valid maze together with its own text, or
\* it fails and leaves the text and the maze on display exactly as they were:
\* no draft that fails validation ever reaches the editor.
C1_FreezeAllOrNothing ==
    [][last'.op \in FreezingOps =>
          IF last'.ok
          THEN /\ input'.kind = "yaml"
               /\ LET maze == Spelled(input')
                  IN  /\ Validate(maze)
                      /\ ValuesOk(maze)
                      /\ mazeData' = _extract_maze_data(maze)
               /\ error' = NoError
          ELSE /\ input' = input
               /\ mazeData' = mazeData]_vars

\* a freeze has failed: the text parsed, setAngle made the hub too small
\* for its arms, and the maze from before is still on display
C1_Witness ==
    /\ last.op = "setAngle" /\ ~last.ok
    /\ error = ErrorText("Error: maze validation failed")
    /\ from_text(input).ok
    /\ mazeData = _extract_maze_data(Spelled(input))

\* C2 as the specification states it: whenever an editor operation fails,
\* the error text is shown and the maze data and the YAML text stay the ones
\* from before the operation.
C2_AsClaimed ==
    [][~last'.ok =>
          /\ error' # NoError
          /\ input' = input
          /\ mazeData' = mazeData]_vars

\* C2, amended: whenever an editor operation fails, the error text is shown
\* and the YAML text and the selections stay as they were; the maze data
\* stay as they were too, except after a failed parse, which clears them.
C2_FailureKeepsLastGood ==
    [][~last'.ok =>
          /\ error' # NoError
          /\ input' = input
          /\ selection' = selection
          /\ mazeData' = IF last'.op = "parse" THEN NoMaze ELSE mazeData]_vars

\* a resize has failed on a text that is no maze document, and the maze
\* from before is still on display
C2_Witness ==
    /\ last.op = "resize" /\ ~last.ok
    /\ error # NoError
    /\ input = Garbage
    /\ mazeData # NoMaze

\* the handlers that change the arm count, an arm's width or the hub angle
HubSteps == {"resizeArm", "setArmCount", "setAngle"}

\* the stored hub size of a radial maze, and the minimum the specification
\* gives for its arms and angle
SizeOf(data) == HubSizeOf(data.hub)
MinimumOf(data) == HubMinimum(data.hub, data.arms)
WidestArm(data) == Rat(MaxOf(ArmWidths(data.arms)), 1)

C4_HubSizeNeverLowered ==
    [][last'.op \in HubSteps /\ last'.ok =>
          /\ NumLeq(SizeOf(mazeData), SizeOf(mazeData'))
          /\ NumLeq(MinimumOf(mazeData'), SizeOf(mazeData)) =>
                 SizeOf(mazeData') = SizeOf(mazeData)]_vars

\* an operation has lowered the minimum (arms removed, an arm narrowed or
\* the angle widened) and the larger stored size is still there
C4_Witness ==
    /\ last.op \in HubSteps /\ last.ok /\ last.note = "above, minimum lowered"
    /\ NumLess(MinimumOf(mazeData), SizeOf(mazeData))

C6_BelowMinimumChangesNothing ==
    [][last'.op = "setHubSize" /\ NumLess(last'.asked, MinimumOf(mazeData)) =>
          /\ ~last'.ok
          /\ error' # NoError
          /\ input' = input
          /\ mazeData' = mazeData
          /\ SizeOf(input'.doc) = SizeOf(input.doc)]_vars

\* a request below the minimum radius has been refused
C6_Witness ==
    /\ last.op = "setHubSize" /\ ~last.ok /\ last.note = "below"
    /\ error = ErrorText("ValueError: Hub radius must be >= min_radius")
    /\ NumLess(last.asked, MinimumOf(mazeData))

\* C7: on a polygon hub the minimum side_length is W_max, whatever the arm
\* count and the angle: an arm resize or arm count operation raises a smaller
\* side_length to exactly W_max and leaves any other alone, a request below
\* W_max fails, and a request at or above W_max succeeds and is stored.
C7_PolygonMinimum ==
    [][mazeData.hub.shape = "polygon" =>
          /\ last'.op \in {"resizeArm", "setArmCount"} /\ last'.ok =>
                 SizeOf(mazeData') =
                     IF NumLess(SizeOf(mazeData), WidestArm(mazeData'))
                     THEN WidestArm(mazeData') ELSE SizeOf(mazeData)
          /\ last'.op = "setHubSize" =>
                 IF NumLess(last'.asked, WidestArm(mazeData))
                 THEN ~last'.ok
                 ELSE last'.ok /\ mazeData'.hub.side_length = last'.asked]_vars

\* an arm resize has raised the side_length of a polygon hub to the width
\* of its widest arm, 3
C7_Witness ==
    /\ last.op = "resizeArm" /\ last.ok /\ last.note = "below"
    /\ mazeData.hub.shape = "polygon"
    /\ mazeData.hub.side_length = Rat(3, 1)
    /\ WidestArm(mazeData) = Rat(3, 1)

\* the edge-shaped layouts of a maze: an edge grid itself, the levels of a
\* 3D edge grid, the arms of a radial maze
LayoutsOf(data) ==
    CASE data.maze_type = "edge_grid" ->
            <<EdgeGridLayout(data.cells, data.vertical_walls, data.horizontal_walls)>>
      [] data.maze_type = "edge_grid_3d" ->
            [i \in 1..Len(data.levels) |-> data.levels[i].layout]
      [] data.maze_type = "radial_arm" -> data.arms
      [] OTHER -> << >>

\* cells H x W, vertical_walls H x (W + 1), horizontal_walls (H + 1) x W
LatticeExact(layout) ==
    LET H == Len(layout.cells)
        W == IF H > 0 THEN Len(layout.cells[1]) ELSE 0
    IN  /\ H >= 1 /\ W >= 1
        /\ \A i \in 1..H : Len(layout.cells[i]) = W
        /\ Len(layout.vertical_walls) = H
        /\ \A i \in 1..H : Len(layout.vertical_walls[i]) = W + 1
        /\ Len(layout.horizontal_walls) = H + 1
        /\ \A i \in 1..(H + 1) : Len(layout.horizontal_walls[i]) = W

AllExact(data) == \A i \in 1..Len(LayoutsOf(data)) : LatticeExact(LayoutsOf(data)[i])

\* the draft with the wall grids of its first layout given another shape:
\* a row or a column of walls dropped or added
Misshapen(draft) ==
    LET others(layout) ==
            {[layout EXCEPT !.horizontal_walls = SubSeq(@, 1, Len(@) - 1)],
             [layout EXCEPT !.horizontal_walls = Append(@, @[1])],
             [layout EXCEPT !.vertical_walls = [i \in 1..Len(@) |-> Tail(@[i])]],
             [layout EXCEPT !.vertical_walls = [i \in 1..Len(@) |-> Append(@[i], 0)]]}
    IN  CASE draft.maze_type = "edge_grid" ->
                {[draft EXCEPT !.vertical_walls = layout.vertical_walls,
                               !.horizontal_walls = layout.horizontal_walls] :
                     layout \in others(LayoutsOf(draft)[1])}
          [] draft.maze_type = "edge_grid_3d" ->
                {[draft EXCEPT !.levels[1].layout = layout] :
                     layout \in others(draft.levels[1].layout)}
          [] draft.maze_type = "radial_arm" ->
                {[draft EXCEPT !.arms[1] = layout] : layout \in others(draft.arms[1])}
          [] OTHER -> {}

\* C8: every edge-shaped layout of the maze on display has vertical_walls
\* of exactly H x (W+1) and horizontal_walls of exactly (H+1) x W for its
\* cells H x W; the drafts that resize, arm resize and arm count make of
\* the text have these shapes before they are frozen; and the maze of the
\* text with its wall grids in any other shape fails freeze, as the pasted
\* misshapen edge grid fails to parse.
C8_EdgeLattice ==
    /\ mazeData # NoMaze => AllExact(mazeData)
    /\ from_text(input).ok =>
          LET maze == thaw(from_text(input).maze)
          IN  /\ \A rows \in Dims, cols \in Dims :
                    AllExact(resizeMazeDraft(maze, rows, cols, selectedElementValue).maze)
              /\ \A armIndex \in 0..(Len(maze.arms) - 1), width \in Dims, length \in Dims :
                    AllExact(resizeRadialArmDraft(maze, armIndex, width, length,
                                 selectedElementValue, selectedWallElementValue).maze)
              /\ maze.maze_type = "radial_arm" =>
                    \A count \in 1..MaxArms :
                        AllExact(setRadialArmCountDraft(maze, count, selectedElementValue,
                                     selectedWallElementValue).maze)
              /\ \A draft \in Misshapen(maze) : ~freeze(draft).ok
    /\ last.op = "parse" /\ input = Document(BadLatticeMaze, FALSE) =>
          ~last.ok /\ mazeData = NoMaze

\* the arm count has grown to MaxArms after the last arm was resized to
\* MaxDim x MaxDim: the new arm has its lattice
C8_Witness ==
    /\ last.op = "setArmCount" /\ last.ok
    /\ mazeData.maze_type = "radial_arm"
    /\ Len(mazeData.arms) = MaxArms
    /\ Len(mazeData.arms[MaxArms].cells) = MaxDim
    /\ Len(mazeData.arms[MaxArms].cells[1]) = MaxDim
    /\ Len(mazeData.arms[MaxArms].vertical_walls[1]) = MaxDim + 1
    /\ Len(mazeData.arms[MaxArms].horizontal_walls) = MaxDim + 1

\* the grids a resize or an arm resize works on: before, after, fill value
ResizedGrids(before, after) ==
    CASE before.maze_type = "occupancy_grid" ->
            {<<before.grid, after.grid, selectedElementValue>>}
      [] before.maze_type = "edge_grid" ->
            {<<before.cells, after.cells, selectedElementValue>>,
             <<before.vertical_walls, after.vertical_walls, 0>>,
             <<before.horizontal_walls, after.horizontal_walls, 0>>}
      [] before.maze_type = "radial_arm" ->
            UNION {{<<before.arms[i].cells, after.arms[i].cells, selectedElementValue>>,
                    <<before.arms[i].vertical_walls, after.arms[i].vertical_walls,
                      selectedWallElementValue>>,
                    <<before.arms[i].horizontal_walls, after.arms[i].horizontal_walls,
                      selectedWallElementValue>>} : i \in 1..Len(before.arms)}
      [] OTHER -> {}

\* every position of the new grid holds the old value where the old grid
\* had that position, and the fill value elsewhere
TailPolicy(old, new, fill) ==
    /\ IsRectangular(new)
    /\ \A r \in 1..Len(new) : \A c \in 1..Len(new[r]) :
          new[r][c] = IF r <= Len(old) /\ c <= Len(old[1]) THEN old[r][c] ELSE fill

\* C9: a resize of a grid from R x C to R' x C' leaves the value at every
\* position with r < min(R, R') and c < min(C, C') unchanged and sets every
\* added position to the fill value: rows and columns come and go at the
\* tail only.
C9_ResizeTailPolicy ==
    [][last'.op \in {"resize", "resizeArm"} /\ last'.ok =>
          /\ Len(mazeData'.arms) = Len(mazeData.arms)
          /\ \A grids \in ResizedGrids(mazeData, mazeData') :
                 TailPolicy(grids[1], grids[2], grids[3])]_vars

\* an occupancy grid holding 0 has grown to MaxDim x MaxDim with fill 1
C9_Witness ==
    /\ last.op = "resize" /\ last.ok /\ last.note = "grown"
    /\ mazeData.maze_type = "occupancy_grid"
    /\ Shapes(last.was) = <<(<<1, 1>>)>>
    /\ Shapes(mazeData) = <<(<<MaxDim, MaxDim>>)>>
    /\ mazeData.grid[1][1] = 0
    /\ \A r \in 1..MaxDim, c \in 1..MaxDim : r + c > 2 => mazeData.grid[r][c] = 1

\* C10: growing a grid and then shrinking it back to its original
\* dimensions yields exactly the original value matrix.
C10_GrowThenShrinkRecovers ==
    last.op = "resize" /\ last.ok /\ last.note = "grown, then shrunk back" =>
        mazeData = last.was

\* an occupancy grid of one row holding 0 and 1 has grown and has been
\* shrunk back
C10_Witness ==
    /\ last.op = "resize" /\ last.ok /\ last.note = "grown, then shrunk back"
    /\ mazeData.maze_type = "occupancy_grid"
    /\ mazeData.grid = <<(<<0, 1>>)>>
    /\ Spelled(input).grid = <<(<<0, 1>>)>>

\* C11: a Maze is never modified after creation.  No handler's Python writes
\* into a Maze: whatever it mutates is a MazeDraft obtained from thaw, so the
\* Maze that from_text made stays as it was made.
C11_MazeNeverWritten == last.wrote # "Maze"

Names(endpoint, levels) == \E i \in 1..Len(levels) : levels[i].id = endpoint.level
IndexOf(endpoint, levels) ==
    levels[CHOOSE i \in 1..Len(levels) : levels[i].id = endpoint.level].index

C16_LevelCountKeepsConnectors ==
    [][last'.op = "setLevelCount" =>
          /\ last'.ok =>
                /\ Len(mazeData'.levels) = last'.asked.n
                /\ \A i \in 1..Len(mazeData'.connectors) :
                       /\ Names(mazeData'.connectors[i].from, mazeData'.levels)
                       /\ Names(mazeData'.connectors[i].to, mazeData'.levels)
          /\ ~last'.ok => input' = input /\ mazeData' = mazeData /\ error' # NoError
          /\ (/\ from_text(input).ok
              /\ \E i \in 1..Len(input.doc.connectors) :
                     \/ input.doc.connectors[i].from.level >= last'.asked.n
                     \/ input.doc.connectors[i].to.level >= last'.asked.n)
                => /\ ~last'.ok
                   /\ error' = ErrorText(DanglingConnector)]_vars

\* with an elevator between the two floors on display, the request for one
\* level has failed
C16_Witness ==
    /\ last.op = "setLevelCount" /\ ~last.ok
    /\ last.asked = Rat(1, 1)
    /\ Len(mazeData.levels) = 2
    /\ Len(mazeData.connectors) = 1
    /\ input = to_text(from_text(input).maze).text
    /\ error = ErrorText(DanglingConnector)

\* no two elements of the set share a name, a token or a value
NoDuplicates(elements) ==
    \A i, j \in 1..Len(elements) :
        i # j => /\ elements[i].name # elements[j].name
                 /\ elements[i].token # elements[j].token
                 /\ elements[i].value # elements[j].value

\* the element the last declaration of the set became
Newest(elements) == elements[Len(elements)]

\* C17: the element sets stay free of duplicates.  No element set of the maze
\* on display, cell or wall, ever holds two elements with the same name, the
\* same token or the same value, whatever elements were added; a request to
\* add an element whose name or token the set it would join already declares
\* fails with an error and leaves the text and the maze on display as they
\* were; and a request that succeeds puts the set of the text on display with
\* the new element at its end.
C17_ElementSetsWithoutDuplicates ==
    /\ [](mazeData # NoMaze => /\ NoDuplicates(mazeData.elements)
                               /\ NoDuplicates(mazeData.wall_elements))
    /\ [][\A type \in ElementTypes, name \in TypedNames :
            \A token \in AskedTokens(name) \ {""} :
              last'.op = "addElement" /\ last'.note = Request(type, name, token) =>
                /\ Clashes(ElementsOfType(input.doc, type), name, token) # {} =>
                      /\ ~last'.ok
                      /\ error' # NoError
                      /\ input' = input /\ mazeData' = mazeData
                /\ last'.ok =>
                      /\ Len(ElementsOfType(mazeData', type)) =
                             Len(ElementsOfType(input.doc, type)) + 1
                      /\ Newest(ElementsOfType(mazeData', type)).name = name
                      /\ Newest(ElementsOfType(mazeData', type)).token = token
                      /\ input'.doc.elements = mazeData'.elements
                      /\ input'.doc.wall_elements = mazeData'.wall_elements]_vars

\* a third cell element was added, and a second request under its name refused
C17_Witness ==
    /\ last.op = "addElement" /\ ~last.ok
    /\ last.note = Request("cell", "door", "D")
    /\ error = ErrorText("ValueError: Element with name already exists")
    /\ Len(mazeData.elements) = 3
    /\ Newest(mazeData.elements).name = "door"
    /\ input.doc.elements = mazeData.elements

\* the value-less declarations of open and wall whose reserved value no
\* explicit value of the set takes
TakesReserved(declared, i) ==
    /\ declared[i].value = NoValue
    /\ declared[i].name \in {"open", "wall"}
    /\ (IF declared[i].name = "open" THEN 0 ELSE 1) \notin
           {declared[j].value : j \in 1..Len(declared)}

\* the values out of reach of the value-less declaration i: the explicit
\* ones, the reserved ones that were taken, and those of the value-less
\* declarations before it
OutOfReach(declared, resolved, i) ==
    {resolved[j].value : j \in {k \in 1..Len(declared) :
                                   \/ declared[k].value # NoValue
                                   \/ TakesReserved(declared, k)
                                   \/ k < i}}

Least(taken) == CHOOSE n \in 0..Cardinality(taken) :
                    n \notin taken /\ \A m \in 0..(n - 1) : m \in taken

ResolvedAsRuled(declared, resolved) ==
    /\ Len(resolved) = Len(declared)
    /\ \A i \in 1..Len(declared) :
          /\ resolved[i].name = declared[i].name
          /\ declared[i].value # NoValue => resolved[i].value = declared[i].value
          /\ TakesReserved(declared, i) =>
                resolved[i].value = IF declared[i].name = "open" THEN 0 ELSE 1
          /\ declared[i].value = NoValue /\ ~TakesReserved(declared, i) =>
                resolved[i].value = Least(OutOfReach(declared, resolved, i))

\* the elements the set had keep their values
ValuesKept(before, after) ==
    /\ Len(after) >= Len(before)
    /\ \A i \in 1..Len(before) : after[i].value = before[i].value

\* C18, as claimed: appending a value-less element never changes the value
\* of an element the set already had.
C18_AsClaimed ==
    [][last'.op = "addElement" /\ last'.ok =>
          /\ ValuesKept(Spelled(input).elements, mazeData'.elements)
          /\ ValuesKept(Spelled(input).wall_elements, mazeData'.wall_elements)]_vars

\* C18: value-less elements.  In a set whose declarations register, an
\* element declared with a value has it; a value-less open has 0 and a
\* value-less wall 1 wherever they are declared, unless an explicit value of
\* the set is that number; every other value-less element has, in
\* declaration order, the smallest non-negative integer that no explicit
\* value, no reserved value taken and no earlier value-less element uses.
\* Appending a value-less element named neither open nor wall leaves the
\* value of every element the set had as it was.
C18_ValuelessElements ==
    /\ [](last.op = "parse" /\ last.ok =>
             /\ ResolvedAsRuled(input.doc.elements, mazeData.elements)
             /\ ResolvedAsRuled(input.doc.wall_elements, mazeData.wall_elements))
    /\ [][\A type \in ElementTypes, name \in TypedNames :
            \A token \in AskedTokens(name) \ {""} :
              /\ last'.op = "addElement" /\ last'.ok
              /\ last'.note = Request(type, name, token)
              => /\ ResolvedAsRuled(
                        AppendElement(input.doc, name, token, type).elements,
                        mazeData'.elements)
                 /\ ResolvedAsRuled(
                        AppendElement(input.doc, name, token, type).wall_elements,
                        mazeData'.wall_elements)
                 /\ name \notin {"open", "wall"} =>
                       /\ ValuesKept(Spelled(input).elements, mazeData'.elements)
                       /\ ValuesKept(Spelled(input).wall_elements,
                                     mazeData'.wall_elements)]_vars

\* wall and open were declared in that order without values, and a door
\* without a value was appended: wall = 1, open = 0, door = 2
C18_Witness ==
    /\ last.op = "addElement" /\ last.ok
    /\ last.note = Request("cell", "door", "D")
    /\ mazeData.elements =
           <<TypedElement("wall", 1), TypedElement("open", 0), TypedElement("door", 2)>>

\* every value of the grid is the value of an element of the set
Resolve(grid, elements) ==
    \A i \in 1..Len(grid) : \A j \in 1..Len(grid[i]) :
        \E k \in 1..Len(elements) : elements[k].value = grid[i][j]

LayoutResolves(layout, cell_elements, wall_elements) ==
    /\ Resolve(layout.cells, cell_elements)
    /\ Resolve(layout.vertical_walls, wall_elements)
    /\ Resolve(layout.horizontal_walls, wall_elements)

TypeOf(text) == IF from_text(text).ok THEN Spelled(text).maze_type ELSE ""

\* C20: an operation on a maze type it does not support fails.  A grid
\* resize of a radial-arm maze, an arm resize of a maze that is not a
\* radial-arm maze and a 2D cell update of a radial-arm maze each end in an
\* error; none of them succeeds with the maze as it was.
C20_WrongTypeFails ==
    [][/\ last'.op = "resize" /\ TypeOf(input) = "radial_arm"
          => ~last'.ok /\ error' # NoError
       /\ last'.op = "resizeArm" /\ TypeOf(input) \in {"occupancy_grid", "edge_grid"}
          => ~last'.ok /\ error' # NoError
       /\ last'.op = "updateCell" /\ TypeOf(input) = "radial_arm"
          => ~last'.ok /\ error' # NoError]_vars

\* the tokens of the set are single characters, none a blank or '|'
TokensAccepted(elements) ==
    \A i \in 1..Len(elements) :
        /\ Len(elements[i].token) = 1
        /\ elements[i].token # " " /\ elements[i].token # "|"

\* C21: element tokens.  Every token of every element on display is exactly
\* one character, no blank and not '|'.  A request to add an element whose
\* token is longer than one character, a blank or '|' ends in an error, and
\* the text and the maze on display stay as they were; a request with an
\* empty token does nothing at all; a request that succeeds had a token of
\* one such character.
C21_TokensAreSingleCharacters ==
    /\ [](TokensAccepted(mazeData.elements) /\ TokensAccepted(mazeData.wall_elements))
    /\ [][\A type \in ElementTypes, name \in TypedNames :
            \A token \in AskedTokens(name) :
              last'.op = "addElement" /\ last'.note = Request(type, name, token) =>
                /\ token # ""
                /\ token \in {"DD", " ", "|"} =>
                      /\ ~last'.ok
                      /\ error' # NoError
                      /\ input' = input /\ mazeData' = mazeData
                /\ token = "DD" => error' = TokenRefused
                /\ last'.ok => token \in {".", "#", "D"}]_vars

\* a door with the token '|' was asked for and the registry refused it
C21_Witness ==
    /\ last.op = "addElement" /\ ~last.ok
    /\ last.note = Request("cell", "door", "|")
    /\ error = ErrorText("ElementError: invalid token")
    /\ mazeData # NoMaze
    /\ \A i \in 1..Len(mazeData.elements) : mazeData.elements[i].name # "door"

\* arm counts below 1 and angles outside (0, 360]
CountsBelowOne == {-1, 0}
AnglesOutOfRange == {-90, 0, 361, 450}

\* C22: arms and angle of a radial maze.  Every radial-arm maze on display
\* has at least one arm and a hub angle above 0 and at most 360 degrees.
\* At any moment a request for an arm count below 1 or for an angle outside
\* that range is turned away: the handler returns without a call, and the
\* service, were it called, raises its ValueError before it freezes
\* anything.  A set-arm-count or set-angle that fails leaves the text and
\* the maze on display as they were.
C22_ArmsAndAngleInRange ==
    /\ [](mazeData.maze_type = "radial_arm" =>
             /\ Len(mazeData.arms) >= 1
             /\ mazeData.hub.angle_degrees > 0 /\ mazeData.hub.angle_degrees <= 360
             /\ \A count \in CountsBelowOne :
                    /\ setArmCount(count).kind = "ignored"
                    /\ setRadialArmCount(input, count, selectedElementValue,
                                         selectedWallElementValue).err
                           = "ValueError: Must have at least 1 arm"
             /\ \A degrees \in AnglesOutOfRange :
                    /\ setAngle(degrees).kind = "ignored"
                    /\ setRadialArmAngle(input, degrees).err
                           = "ValueError: angle_degrees must be between 1 and 360")
    /\ [][last'.op \in {"setArmCount", "setAngle"} /\ ~last'.ok =>
             /\ input' = input /\ mazeData' = mazeData
             /\ error' # NoError]_vars

\* the maze is down to its last arm and its angle at the upper end of the
\* range: a request for no arm or for 361 degrees would leave the range
C22_Witness ==
    /\ last.op = "setArmCount" /\ last.ok
    /\ mazeData.maze_type = "radial_arm"
    /\ Len(mazeData.arms) = 1
    /\ mazeData.hub.angle_degrees = 360
    /\ setArmCount(0).kind = "ignored"
    /\ setAngle(361).kind = "ignored"

\* the arm's outer corners lie on the hub circle: D^2 + (W/2)^2 = R^2
CornersOnCircle(distanceSquared, hub, armWidth) ==
    IF distanceSquared.clamped
    THEN Rat(armWidth, 2) = hub.radius
    ELSE distanceSquared.of = hub.radius /\ distanceSquared.less = Rat(armWidth, 2)

\* C23, as claimed: in every circular-hub radial maze that passed validation
\* the corners of every arm lie on the hub circle.
C23_AsClaimed ==
    mazeData.maze_type = "radial_arm" /\ mazeData.hub.shape = "circular" =>
        \A i \in 1..Len(mazeData.arms) :
            CornersOnCircle(
                armCenterDistanceSquared(mazeData.hub, Len(mazeData.arms[i].cells)),
                mazeData.hub, Len(mazeData.arms[i].cells))

\* C23: the connection offset of an arm.  Every circular-hub radial maze on
\* display passed validation (its radius is at least the minimum
\* W_max * N / theta), and for each of its arms, of width W: when the
\* radius R is at least W/2 the offset D satisfies D^2 + (W/2)^2 = R^2 and
\* the corners lie on the hub circle; when R is below W/2, which the
\* validation allows, D is 0 and the corners lie outside the circle.
C23_ConnectionOffset ==
    mazeData.maze_type = "radial_arm" /\ mazeData.hub.shape = "circular" =>
        /\ HubOk(mazeData.hub, mazeData.arms)
        /\ \A i \in 1..Len(mazeData.arms) :
               IF NumLeq(Rat(Len(mazeData.arms[i].cells), 2), mazeData.hub.radius)
               THEN CornersOnCircle(
                        armCenterDistanceSquared(mazeData.hub, Len(mazeData.arms[i].cells)),
                        mazeData.hub, Len(mazeData.arms[i].cells))
               ELSE /\ armCenterDistanceSquared(mazeData.hub,
                                                Len(mazeData.arms[i].cells)).clamped
                    /\ ~CornersOnCircle(
                            armCenterDistanceSquared(mazeData.hub,
                                                     Len(mazeData.arms[i].cells)),
                            mazeData.hub, Len(mazeData.arms[i].cells))

\* one arm over the full circle with a hub of radius 1/5: above the minimum
\* 1/(2 Pi), below half the arm's width
C23_Witness ==
    /\ last.op = "setHubSize" /\ last.ok
    /\ mazeData.hub.shape = "circular"
    /\ mazeData.hub.angle_degrees = 360
    /\ Len(mazeData.arms) = 1
    /\ Len(mazeData.arms[1].cells) = 1
    /\ mazeData.hub.radius = Rat(1, 5)
    /\ armCenterDistanceSquared(mazeData.hub, 1).clamped

\* the value a text holds at a cell, read as the parser reads it
TextValueAt(text, row, col) == ValueAt(parseMaze(text).data.grid, row, col)

EditShown(edit, text, data) ==
    /\ ValueAt(data.grid, edit[1], edit[2]) = edit[3]
    /\ TextValueAt(text, edit[1], edit[2]) = edit[3]

\* C24: edits to one document are serialized.  When the answer of a paint is
\* applied, the maze on display and the text hold the value it painted at
\* its cell, and they still hold, at every other cell, the value painted by
\* each paint that was unanswered when this one was issued: no paint is
\* computed from a text that an earlier, still unanswered paint is about to
\* replace.
C24_EditsSerialized ==
    [][last'.op = "updateCell" /\ last'.ok =>
          /\ EditShown(last'.note.edit, input', mazeData')
          /\ \A i \in 1..Len(last'.note.over) :
                 (last'.note.over[i][1] # last'.note.edit[1]
                      \/ last'.note.over[i][2] # last'.note.edit[2])
                 => EditShown(last'.note.over[i], input', mazeData')]_vars


\* what parsing a text puts on display: the data and no error, or no data
\* and the error
ParseShows(text, data, err) ==
    IF parseMaze(text).ok
    THEN data = parseMaze(text).data /\ err = NoError
    ELSE data = NoMaze /\ err = ErrorText(parseMaze(text).err)

\* C25: after a file is loaded, once the parse it triggers completes, the
\* text is the content of the file and the maze on display, or the error
\* shown, is what parsing that content gives, not what parsing the text
\* that was there before the load gives.  (Stated for a load that found no
\* paint unanswered and that nothing followed before its parse completed.)
C25_LoadedFileIsParsed ==
    [][last'.op = "parse" /\ last'.note.over = <<>> /\ pending' = <<>> =>
          /\ input' = last'.note.loaded
          /\ ParseShows(last'.note.loaded, mazeData', error')]_vars


\* C26: under any interleaving of callers the runtime is loaded at most
\* once, and every call of getPyodide that has resolved, one made while the
\* initialisation was in progress included, resolved to a runtime on which
\* the packages were installed and the helpers defined.
C26_LoadedOnceAndComplete ==
    /\ pyodide.loads <= 1
    /\ \A c \in 1..Len(pyodide.got) :
           pyodide.got[c].instance # 0 => pyodide.got[c].complete


\* C27: at every moment a 3D maze is on display the selected level index is
\* one of its levels, 0..levelCount-1, and it is 0 whenever a 2D maze is on
\* display, whatever level-count changes, creates, parses, level selections
\* and image exports came before.
C27_LevelIndexInRange ==
    mazeData # NoMaze =>
        IF is3DMazeType(mazeData.maze_type)
        THEN selectedLevelIndex \in 0..(Len(mazeData.levels) - 1)
        ELSE selectedLevelIndex = 0

\* C30: when exportImage finishes on a 3D maze of more than one level,
\* whether every capture succeeded or one of them failed, the selected level
\* index is the one that was selected when the export started.
C30_LevelRestored ==
    [][last'.op = "exportImage" /\ last'.note.levels > 1 =>
          selectedLevelIndex' = last'.note.originalLevel]_vars


\* the selections fit a maze: the selected values are values of its elements
\* where it has any, and the walls layer is selected only where it has wall
\* elements
SelectionFits(cellValue, wallValue, layer, data) ==
    /\ Len(data.elements) > 0 => cellValue \in ValuesOf(data.elements)
    /\ Len(data.wall_elements) > 0 => wallValue \in ValuesOf(data.wall_elements)
    /\ layer = "walls" => Len(data.wall_elements) > 0

\* the handlers that paint, and the set the value they paint is taken from
PaintFits ==
    /\ last'.op = "updateCell" => PaintValue \in ValuesOf(mazeData.elements)
    /\ last'.op = "updateWall" =>
           selectedWallElementValue \in ValuesOf(mazeData.wall_elements)

\* C28: after any operation result or successful parse is applied, the
\* selected cell value is the value of a cell element of the maze on display
\* and the selected wall value the value of one of its wall elements
\* (wherever the set is not empty), and the walls layer is selected only if
\* the maze has wall elements; the selections the user makes from the
\* palette keep that, so a paint never writes a value that is not in the
\* element sets of the maze on display.
C28_SelectionFitsElements ==
    /\ [](mazeData # NoMaze =>
              SelectionFits(selectedElementValue, selectedWallElementValue,
                            selectedLayer, mazeData))
    /\ [][last'.ok /\ last'.op \in {"updateCell", "updateWall"} => PaintFits]_vars

\* an occupancy grid has been parsed after a maze with wall elements was on
\* display, where the user had picked the wall value 0: the grid has no wall
\* elements, the cells layer is selected and the selected cell value is one
\* of the grid's
C28_Witness ==
    /\ last.op = "parse" /\ last.ok
    /\ mazeData.maze_type = "occupancy_grid"
    /\ Len(mazeData.wall_elements) = 0
    /\ selectedWallElementValue = 0
    /\ selectedLayer = "cells"
    /\ selectedElementValue = mazeData.elements[1].value
    /\ selectedElementValue # 0


\* what setting the arm count to count makes of the arms: count arms, the
\* first ones as they were, the ones beyond the old count blank, of the
\* dimensions of the old last arm and filled with the given values
ArmsSetTo(before, after, count, cell_value, wall_value) ==
    /\ Len(after) = count
    /\ \A i \in 1..Min2(count, Len(before)) : after[i] = before[i]
    /\ \A i \in (Len(before) + 1)..count :
           after[i] = BlankEdge(Len(before[Len(before)].cells),
                                Len(before[Len(before)].cells[1]),
                                cell_value, wall_value)

\* the outcome of setArmCount on the maze on display: a result, whose
\* arms and whose text's arms are those
ArmCountSet(outcome, count) ==
    /\ outcome.kind = "apply"
    /\ ArmsSetTo(mazeData.arms, outcome.result.data.arms, count,
                 selectedElementValue, selectedWallElementValue)
    /\ parseMaze(outcome.result.text).data.arms = outcome.result.data.arms

\* C29: setting the arm count to n above the current count appends the
\* missing arms at the end, each with the cell dimensions of the arm that
\* was last and filled with the cell and wall values given as defaults (the
\* editor gives the selected ones); setting it to n below the current count
\* removes arms from the end only; in both cases the arms 0..min(n,
\* current)-1 are unchanged.  Both for the service called on the text and
\* for the step of the editor.
C29_ArmsChangeAtTheEnd ==
    /\ [](mazeData # NoMaze /\ mazeData.maze_type = "radial_arm" =>
              \A count \in 1..(MaxArms + 1) : ArmCountSet(setArmCount(count), count))
    /\ [][last'.op = "setArmCount" /\ last'.ok =>
              ArmsSetTo(mazeData.arms, mazeData'.arms, Len(mazeData'.arms),
                        selectedElementValue, selectedWallElementValue)]_vars

\* the arm count was raised by two from one arm of the largest size, with
\* the wall value 0 selected: two blank arms of that size follow it
C29_Witness ==
    /\ last.op = "setArmCount" /\ last.ok
    /\ Len(mazeData.arms) = 3
    /\ Len(mazeData.arms[1].cells) = MaxDim
    /\ Len(mazeData.arms[1].cells[1]) = MaxDim
    /\ mazeData.arms[1] # BlankEdge(MaxDim, MaxDim, 0, 0)
    /\ mazeData.arms[2] = BlankEdge(MaxDim, MaxDim, 0, 0)
    /\ mazeData.arms[3] = BlankEdge(MaxDim, MaxDim, 0, 0)
====
